---- MODULE Spec2Model ----
(***************************************************************************)
(* Model of the cray-product-catalog update / delete / migration protocol. *)
(* ConfigMaps live in `store`; every process (catalog_update.main,         *)
(* catalog_delete.main, migration.main) is a sequential program that       *)
(* issues one Kubernetes API call per step.                                *)
(***************************************************************************)
EXTENDS Integers, Sequences, FiniteSets, TLC

\* ------------------------------------------------------------------------
\* Strings are sequences of one-character strings, so that lower-casing,
\* replacement and pattern matching are computed as the code computes them.
\* ------------------------------------------------------------------------
LowerLetters == <<"a","b","c","d","e","f","g","h","i","j","k","l","m",
                  "n","o","p","q","r","s","t","u","v","w","x","y","z">>
UpperLetters == <<"A","B","C","D","E","F","G","H","I","J","K","L","M",
                  "N","O","P","Q","R","S","T","U","V","W","X","Y","Z">>
Digits == {"0","1","2","3","4","5","6","7","8","9"}
Range(s) == {s[i] : i \in DOMAIN s}
AlNumLower == Range(LowerLetters) \cup Digits
NameChars == AlNumLower \cup {".", "-"}

\* str.lower() on one character
lower(c) ==
    IF \E i \in DOMAIN UpperLetters : UpperLetters[i] = c
    THEN LowerLetters[CHOOSE i \in DOMAIN UpperLetters : UpperLetters[i] = c]
    ELSE c

\* product.replace('_', '-').lower()
normalize(product) ==
    [i \in DOMAIN product |-> lower(IF product[i] = "_" THEN "-" ELSE product[i])]

EmptyString == <<>>

\* migration/__init__.py: PRODUCT_CATALOG_CONFIG_MAP_NAME (default), also
\* catalog_update.MAIN_CONFIG_MAP and catalog_delete.CONFIG_MAP (defaults)
MAIN_CONFIG_MAP ==
    <<"c","r","a","y","-","p","r","o","d","u","c","t","-",
      "c","a","t","a","l","o","g">>

\* migration/__init__.py: CONFIG_MAP_TEMP
CONFIG_MAP_TEMP == MAIN_CONFIG_MAP \o <<"-","t","e","m","p">>

\* Kubernetes limit on the length of an object name
MaxNameLen == 253

\* re.fullmatch('^([a-z0-9])*[a-z0-9.-]*([a-z0-9])$', s)
MatchesNamePattern(s) ==
    /\ Len(s) >= 1
    /\ \A i \in DOMAIN s : s[i] \in NameChars
    /\ s[Len(s)] \in AlNumLower

\* catalog_data_helper.format_product_cm_name
format_product_cm_name(config_map, product) ==
    LET prod_config_map == config_map \o <<"-">> \o normalize(product)
    IN  IF Len(prod_config_map) > MaxNameLen THEN EmptyString
        ELSE IF ~MatchesNamePattern(prod_config_map) THEN EmptyString
        ELSE prod_config_map

\* re.fullmatch(PRODUCT_CONFIG_MAP_PATTERN, name) with
\* PRODUCT_CONFIG_MAP_PATTERN = '^(cray-product-catalog)-([a-z0-9.-]+)$'
MatchesProductPattern(name) ==
    LET n == Len(MAIN_CONFIG_MAP)
    IN  /\ Len(name) >= n + 2
        /\ SubSeq(name, 1, n) = MAIN_CONFIG_MAP
        /\ name[n + 1] = "-"
        /\ \A i \in (n + 2)..Len(name) : name[i] \in NameChars

\* exit_handler._is_product_config_map
IsProductConfigMap(config_map_name) ==
    IF config_map_name = EmptyString THEN FALSE
    ELSE MatchesProductPattern(config_map_name)

\* ------------------------------------------------------------------------
\* Documents.  A Python dict is a function whose DOMAIN is its key set; a
\* value is either a leaf (scalar or list) or a nested mapping.
\* ------------------------------------------------------------------------
Leaf(v) == [leaf |-> v]
Map(f) == [map |-> f]
IsMap(v) == DOMAIN v = {"map"}
EmptyDict == [k \in {} |-> Leaf("")]
Put(dict, k, v) == [j \in DOMAIN dict \cup {k} |-> IF j = k THEN v ELSE dict[j]]
Pop(dict, k) == [j \in DOMAIN dict \ {k} |-> dict[j]]
Restrict(dict, keys) == [j \in DOMAIN dict \cap keys |-> dict[j]]

\* constants.PRODUCT_CM_FIELDS: the fields routed to the product ConfigMap
PRODUCT_CM_FIELDS == {"component_versions"}
\* constants.CONFIG_MAP_FIELDS: the fields of the main ConfigMap
CONFIG_MAP_FIELDS == {"configuration", "images", "recipes"}

\* util.merge_dict.merge_dict(source, destination): nested mappings are
\* merged key by key, every other value of source wins; no mutation.
RECURSIVE merge_dict(_, _)
merge_dict(source, destination) ==
    [k \in DOMAIN source \cup DOMAIN destination |->
        IF k \notin DOMAIN source THEN destination[k]
        ELSE IF k \in DOMAIN destination /\ IsMap(source[k]) /\ IsMap(destination[k])
             THEN Map(merge_dict(source[k].map, destination[k].map))
             ELSE source[k]]

\* a split that keeps every key in the first return value
split_keep_all(data) == data

\* catalog_data_helper.split_catalog_data, first and second return value
split_main(data) ==
    LET all_unique_keys == DOMAIN data
    IN  [key \in all_unique_keys \ PRODUCT_CM_FIELDS |-> data[key]]

split_prod(data) ==
    LET all_unique_keys == DOMAIN data
        comm_keys_bw_cms == all_unique_keys \cap PRODUCT_CM_FIELDS
    IN  IF comm_keys_bw_cms = {} THEN EmptyDict
        ELSE [key \in comm_keys_bw_cms |-> data[key]]

\* The value stored under a product key is YAML text.  The text is modelled
\* by what yaml.safe_load makes of it: the empty text loads as None, a dumped
\* mapping loads as that mapping.
EmptyText == [kind |-> "empty", val |-> EmptyDict]
safe_dump(mapping) == [kind |-> "yaml", val |-> mapping]
LoadsNone(text) == text.kind = "empty"
safe_load(text) == text.val

\* truthiness of dict.get('active')
Truthy(doc, k) == k \in DOMAIN doc /\ doc[k] \notin {Leaf("False"), Leaf("")}

\* a set_active_version that leaves the other versions as they are
set_active_current_only(product_data, PRODUCT_VERSION) ==
    [version \in DOMAIN product_data |->
        IF version = PRODUCT_VERSION
        THEN Put(product_data[version], "active", Leaf("True"))
        ELSE product_data[version]]

\* catalog_update.set_active_version
set_active_version(product_data, PRODUCT_VERSION) ==
    [version \in DOMAIN product_data |->
        Put(product_data[version], "active",
            IF version = PRODUCT_VERSION THEN Leaf("True") ELSE Leaf("False"))]

\* catalog_update.current_version_is_active
current_version_is_active(product_data, PRODUCT_VERSION) ==
    /\ Truthy(product_data[PRODUCT_VERSION], "active")
    /\ ~\E version \in DOMAIN product_data \ {PRODUCT_VERSION} :
            Truthy(product_data[version], "active")

\* catalog_update.remove_active_field
remove_active_field(product_data) ==
    [version \in DOMAIN product_data |-> Pop(product_data[version], "active")]

\* catalog_update.active_field_exists
active_field_exists(product_data) ==
    \E version \in DOMAIN product_data : "active" \in DOMAIN product_data[version]

\* ------------------------------------------------------------------------
\* The backend: ConfigMaps of one namespace.
\* ------------------------------------------------------------------------
VARIABLES
    store,      \* ConfigMap name -> object (exists, data, resource version, label)
    rvCounter,  \* the last resource version the API server handed out
    faults,     \* number of API calls that failed for a reason of the backend
    u,          \* catalog_update processes
    d,          \* catalog_delete processes
    m,          \* the migration process
    g           \* history: what has happened so far in the run

vars == <<store, rvCounter, faults, u, d, m, g>>

\* Product names used by the processes of the model
Sat == <<"s","a","t">>
Hfp == <<"H","F","_","p">>
Products == {Sat, Hfp}
ProductCM(product) == format_product_cm_name(MAIN_CONFIG_MAP, product)
ObjNames == {MAIN_CONFIG_MAP, CONFIG_MAP_TEMP} \cup ({ProductCM(p) : p \in Products} \ {EmptyString})

\* metadata.resource_version of a request body: a set with the one version, or
\* the empty set when the body carries none
NoRV == {}
Absent == [exists |-> FALSE, data |-> EmptyDict, rv |-> 0, labels |-> FALSE]
Object(data, rv, labels) == [exists |-> TRUE, data |-> data, rv |-> rv, labels |-> labels]
Exists(name) == name \in ObjNames /\ store[name].exists

\* V1ConfigMap(data=config_map_data) sent as a patch: the keys of the body
\* replace the stored keys, the other stored keys stay
Overlay(stored, body) ==
    [k \in DOMAIN stored \cup DOMAIN body |-> IF k \in DOMAIN body THEN body[k] ELSE stored[k]]

\* an API server that applies every patch to whatever is stored
PatchIgnoringVersion(obj, resource_version) == obj.exists

\* API server: a patch whose body carries metadata.resourceVersion is applied
\* only to an object that still has that resource version (else 409); a patch
\* without it is applied to whatever is stored; a missing object gives 404.
PatchApplies(obj, resource_version) ==
    obj.exists /\ (resource_version = NoRV \/ obj.rv \in resource_version)

\* api_instance.patch_namespaced_config_map: the store after the call
patch_namespaced_config_map(name, body, resource_version) ==
    IF name \in ObjNames /\ PatchApplies(store[name], resource_version)
    THEN [store EXCEPT ![name] = [@ EXCEPT !.data = Overlay(@, body), !.rv = rvCounter + 1]]
    ELSE store

\* api_instance.create_namespaced_config_map succeeds only for a valid name
\* that is not taken
CanCreate(name) == name \in ObjNames /\ ~store[name].exists
create_namespaced_config_map(name, data, labels) ==
    [store EXCEPT ![name] = Object(data, rvCounter + 1, labels)]

\* api_instance.delete_namespaced_config_map succeeds only for an existing object
CanDelete(name) == name \in ObjNames /\ store[name].exists
delete_namespaced_config_map(name) == [store EXCEPT ![name] = Absent]

\* the bound on injected backend failures
MaxFaults == 1
CanFail == faults < MaxFaults

\* ------------------------------------------------------------------------
\* catalog_update: one process per writer
\* ------------------------------------------------------------------------
\* catalog_update.update_config_map: retries
retries == 100

NumWriters == 2
Writers == 1..NumWriters

\* the ConfigMap the current update_config_map call of writer w works on
UName(w) == IF u[w].cm = "main" THEN MAIN_CONFIG_MAP ELSE ProductCM(u[w].PRODUCT)
\* the `data` argument of that call
UData(w) == IF u[w].cm = "main" THEN split_main(u[w].data) ELSE split_prod(u[w].data)

\* update_config_map, from a successful read to the body of the patch:
\* what the loop does next and the config_map_data it would send
Decide(config_map_data, data, PRODUCT, PRODUCT_VERSION, OVERWRITE, SET_ACTIVE, REMOVE_ACTIVE) ==
    LET has == PRODUCT \in DOMAIN config_map_data
        loaded == IF has THEN safe_load(config_map_data[PRODUCT]) ELSE EmptyDict
        vexists == has /\ PRODUCT_VERSION \in DOMAIN loaded
        product_data ==
            IF ~has THEN [v \in {PRODUCT_VERSION} |-> EmptyDict]
            ELSE IF ~vexists THEN Put(loaded, PRODUCT_VERSION, EmptyDict)
            ELSE IF OVERWRITE THEN Put(loaded, PRODUCT_VERSION, data)
            ELSE loaded
        merged_product_data ==
            ~OVERWRITE /\ merge_dict(data, product_data[PRODUCT_VERSION]) = product_data[PRODUCT_VERSION]
        check == vexists /\ (merged_product_data \/ OVERWRITE)
        patched == Put(product_data, PRODUCT_VERSION, merge_dict(data, product_data[PRODUCT_VERSION]))
        activated == IF SET_ACTIVE THEN set_active_version(patched, PRODUCT_VERSION) ELSE patched
        cleared == IF REMOVE_ACTIVE THEN remove_active_field(activated) ELSE activated
    IN  IF has /\ LoadsNone(config_map_data[PRODUCT])
        THEN [next |-> "crash", body |-> config_map_data]
        ELSE IF check /\ SET_ACTIVE /\ REMOVE_ACTIVE
        THEN [next |-> "exit", body |-> config_map_data]
        ELSE IF check /\ (IF SET_ACTIVE THEN current_version_is_active(product_data, PRODUCT_VERSION)
                          ELSE IF REMOVE_ACTIVE THEN ~active_field_exists(product_data)
                          ELSE TRUE)
        THEN [next |-> "break", body |-> config_map_data]
        ELSE [next |-> "patch", body |-> Put(config_map_data, PRODUCT, safe_dump(cleared))]

\* a loop that allows one more iteration
AfterIterationOneMore(attempt) == IF attempt <= retries THEN "read" ELSE "failed"

\* `continue` / falling off the end of the loop body: the while condition,
\* then the check after the loop
AfterIteration(attempt) == IF attempt < retries THEN "read" ELSE "failed"
\* what the process reports when it stops there
WhyAfterIteration(attempt) == IF attempt < retries THEN "" ELSE "exhausted"

\* a main that does not compare the two flags
ModesNotCompared(w) == FALSE

\* catalog_update.main: `if SET_ACTIVE_VERSION and REMOVE_ACTIVE_FIELD`
BothActiveModes(w) == u[w].SET_ACTIVE_VERSION /\ u[w].REMOVE_ACTIVE_FIELD

\* a main that does not look at the product ConfigMap name
NameNotChecked(w) == FALSE

\* catalog_update.main: `if prod_cm_data and product_config_map == ''`
InvalidProductName(w) ==
    LET prod_cm_data == split_prod(u[w].data)
        product_config_map == format_product_cm_name(MAIN_CONFIG_MAP, u[w].PRODUCT)
    IN  prod_cm_data # EmptyDict /\ product_config_map = EmptyString

\* catalog_update.main up to the first update_config_map call
UMain(w) ==
    /\ u[w].pc = "main"
    /\ LET bad == BothActiveModes(w) \/ InvalidProductName(w)
       IN  u' = [u EXCEPT ![w].pc = IF bad THEN "failed" ELSE "read",
                          ![w].why = IF bad THEN "precondition" ELSE "",
                          ![w].cm = "main", ![w].attempt = 0]
    /\ UNCHANGED <<store, rvCounter, faults, d, m, g>>

\* a main that calls update_config_map for the product ConfigMap whatever
\* prod_cm_data is
AfterBreakBoth(w, attempt) ==
    IF attempt = retries
    THEN [u EXCEPT ![w].pc = "failed", ![w].why = "exhausted", ![w].attempt = attempt]
    ELSE IF u[w].cm = "main" /\ ProductCM(u[w].PRODUCT) # EmptyString
    THEN [u EXCEPT ![w].pc = "read", ![w].cm = "prod", ![w].attempt = 0]
    ELSE [u EXCEPT ![w].pc = "done", ![w].attempt = attempt]

\* a main that ends after the main ConfigMap
AfterBreakMainOnly(w, attempt) ==
    IF attempt = retries
    THEN [u EXCEPT ![w].pc = "failed", ![w].why = "exhausted", ![w].attempt = attempt]
    ELSE [u EXCEPT ![w].pc = "done", ![w].attempt = attempt]

\* `break`: the check after the loop, then the rest of main
AfterBreak(w, attempt) ==
    IF attempt = retries
    THEN [u EXCEPT ![w].pc = "failed", ![w].why = "exhausted", ![w].attempt = attempt]
    ELSE IF u[w].cm = "main" /\ split_prod(u[w].data) # EmptyDict
    THEN [u EXCEPT ![w].pc = "read", ![w].cm = "prod", ![w].attempt = 0]
    ELSE [u EXCEPT ![w].pc = "done", ![w].attempt = attempt]

\* one loop iteration up to the patch: attempt += 1, read, decide
URead(w) ==
    /\ u[w].pc = "read"
    /\ LET attempt == u[w].attempt + 1
           name == UName(w)
       IN  IF ~Exists(name)
           THEN u' = [u EXCEPT ![w].attempt = attempt,
                               ![w].pc = IF name = MAIN_CONFIG_MAP THEN AfterIteration(attempt)
                                         ELSE "create",
                               ![w].why = IF name = MAIN_CONFIG_MAP
                                          THEN WhyAfterIteration(attempt) ELSE ""]
           ELSE LET response == store[name]
                    dec == Decide(response.data, UData(w), u[w].PRODUCT, u[w].PRODUCT_VERSION,
                                  u[w].UPDATE_OVERWRITE, u[w].SET_ACTIVE_VERSION,
                                  u[w].REMOVE_ACTIVE_FIELD)
                IN  IF dec.next = "break" THEN u' = AfterBreak(w, attempt)
                    ELSE IF dec.next \in {"crash", "exit"}
                    THEN u' = [u EXCEPT ![w].pc = "failed", ![w].why = dec.next,
                                        ![w].attempt = attempt]
                    ELSE u' = [u EXCEPT ![w].pc = "patch", ![w].attempt = attempt,
                                        ![w].seen = response, ![w].body = dec.body]
    /\ UNCHANGED <<store, rvCounter, faults, d, m, g>>

\* read_namespaced_config_map raises an ApiException other than 404
UReadError(w) ==
    /\ u[w].pc = "read"
    /\ CanFail
    /\ faults' = faults + 1
    /\ u' = [u EXCEPT ![w].pc = "failed", ![w].why = "read_error", ![w].attempt = @ + 1]
    /\ UNCHANGED <<store, rvCounter, d, m, g>>

\* a create_config_map that leaves the label out
UCreateUnlabelled(w) ==
    /\ u[w].pc = "create"
    /\ IF CanCreate(UName(w))
       THEN /\ store' = create_namespaced_config_map(UName(w), EmptyDict, FALSE)
            /\ rvCounter' = rvCounter + 1
            /\ u' = [u EXCEPT ![w].pc = AfterIteration(u[w].attempt),
                               ![w].why = WhyAfterIteration(u[w].attempt)]
       ELSE /\ u' = [u EXCEPT ![w].pc = "failed", ![w].why = "create_failed"]
            /\ UNCHANGED <<store, rvCounter>>
    /\ UNCHANGED <<faults, d, m, g>>

\* catalog_update.create_config_map for the product ConfigMap, then `continue`
UCreate(w) ==
    /\ u[w].pc = "create"
    /\ IF CanCreate(UName(w))
       THEN /\ store' = create_namespaced_config_map(UName(w), EmptyDict, TRUE)
            /\ rvCounter' = rvCounter + 1
            /\ u' = [u EXCEPT ![w].pc = AfterIteration(u[w].attempt),
                               ![w].why = WhyAfterIteration(u[w].attempt)]
       ELSE /\ u' = [u EXCEPT ![w].pc = "failed", ![w].why = "create_failed"]
            /\ UNCHANGED <<store, rvCounter>>
    /\ UNCHANGED <<faults, d, m, g>>

\* create_namespaced_config_map fails for a reason of the backend
UCreateError(w) ==
    /\ u[w].pc = "create"
    /\ CanFail
    /\ faults' = faults + 1
    /\ u' = [u EXCEPT ![w].pc = "failed", ![w].why = "create_error"]
    /\ UNCHANGED <<store, rvCounter, d, m, g>>

\* the patch call of this iteration with the given metadata.resource_version;
\* a 409 or 404 answer is logged and the loop goes on
UPatchWith(w, resource_version) ==
    /\ u[w].pc = "patch"
    /\ LET name == UName(w)
           after == patch_namespaced_config_map(name, u[w].body, resource_version)
       IN  /\ store' = after
           /\ rvCounter' = IF after # store THEN rvCounter + 1 ELSE rvCounter
           /\ g' = IF after # store THEN g ELSE [g EXCEPT !.rejected = TRUE]
    /\ u' = [u EXCEPT ![w].pc = AfterIteration(u[w].attempt),
                       ![w].why = WhyAfterIteration(u[w].attempt)]
    /\ UNCHANGED <<faults, d, m>>

\* a writer that patches without the resource version of its read
UPatchUnversioned(w) == UPatchWith(w, NoRV)

\* the patch of update_config_map carries response.metadata.resource_version
UPatch(w) == UPatchWith(w, {u[w].seen.rv})

\* a patch fails for a reason of the backend (an ApiException that is not
\* retried by the client); while the backend rejects writes any number of
\* patches fail, otherwise the failures are counted
UFault == IF g.outage THEN UNCHANGED faults ELSE CanFail /\ faults' = faults + 1

\* patch_namespaced_config_map fails for a reason of the backend
UPatchError(w) ==
    /\ u[w].pc = "patch"
    /\ UFault
    /\ u' = [u EXCEPT ![w].pc = AfterIteration(u[w].attempt),
                       ![w].why = WhyAfterIteration(u[w].attempt)]
    /\ UNCHANGED <<store, rvCounter, d, m, g>>

\* ------------------------------------------------------------------------
\* catalog_delete: one process
\* ------------------------------------------------------------------------
\* catalog_delete.MAX_RETRIES, MAX_RETRIES_FOR_PROD_CM
MAX_RETRIES == 100
MAX_RETRIES_FOR_PROD_CM == 10

\* KEY is None
NoKey == ""

DName == IF d.cm = "main" THEN MAIN_CONFIG_MAP ELSE ProductCM(d.PRODUCT)
DMaxAttempts == IF d.cm = "main" THEN MAX_RETRIES ELSE MAX_RETRIES_FOR_PROD_CM

\* modify_config_map counts its iterations without limit; only the comparison
\* attempt < max_attempts reads the counter, so it is kept up to max_attempts + 1
DCount(attempt) == IF attempt > DMaxAttempts THEN attempt ELSE attempt + 1

\* a modify_config_map that leaves a version without keys in place
DDecideKeepsEmpty(config_map_data, product, product_version, key) ==
    LET has == product \in DOMAIN config_map_data
        product_data == IF has THEN safe_load(config_map_data[product]) ELSE EmptyDict
        vexists == has /\ product_version \in DOMAIN product_data
        doc == IF vexists THEN product_data[product_version] ELSE EmptyDict
        modified ==
            IF key # NoKey THEN Put(product_data, product_version, Pop(doc, key))
            ELSE Pop(product_data, product_version)
    IN  IF ~has \/ ~vexists \/ (key # NoKey /\ key \notin DOMAIN doc)
        THEN [next |-> "break", body |-> config_map_data]
        ELSE [next |-> "patch", body |-> Put(config_map_data, product, safe_dump(modified))]

\* a modify_config_map that patches although the version is not there
DDecideAlwaysPatch(config_map_data, product, product_version, key) ==
    LET has == product \in DOMAIN config_map_data
        product_data == IF has THEN safe_load(config_map_data[product]) ELSE EmptyDict
    IN  [next |-> "patch",
         body |-> Put(config_map_data, product, safe_dump(Pop(product_data, product_version)))]

\* modify_config_map, from a successful read to the body of the patch
DDecide(config_map_data, product, product_version, key) ==
    LET has == product \in DOMAIN config_map_data
        product_data == IF has THEN safe_load(config_map_data[product]) ELSE EmptyDict
        vexists == has /\ product_version \in DOMAIN product_data
        doc == IF vexists THEN product_data[product_version] ELSE EmptyDict
        modified ==
            IF key # NoKey /\ key \in DOMAIN doc
            THEN Put(product_data, product_version, Pop(doc, key))
            ELSE Pop(product_data, product_version)
    IN  IF ~has THEN [next |-> "break", body |-> config_map_data]
        ELSE IF LoadsNone(config_map_data[product])
        THEN [next |-> "crash", body |-> config_map_data]
        ELSE IF ~vexists THEN [next |-> "break", body |-> config_map_data]
        ELSE IF key # NoKey /\ key \notin DOMAIN doc /\ DOMAIN doc # {}
        THEN [next |-> "break", body |-> config_map_data]
        ELSE [next |-> "patch", body |-> Put(config_map_data, product, safe_dump(modified))]

\* a modify that starts with the main ConfigMap whatever the key is
DMainFirst ==
    /\ d.pc = "main"
    /\ d' = [d EXCEPT !.pc = "read", !.cm = "main", !.attempt = 0]
    /\ UNCHANGED <<store, rvCounter, faults, u, m, g>>

\* catalog_delete.main and ModifyConfigMapUtil.modify up to the first call
DMain ==
    /\ d.pc = "main"
    /\ d' = IF d.KEY = NoKey \/ d.KEY \in CONFIG_MAP_FIELDS
            THEN [d EXCEPT !.pc = "read", !.cm = "main", !.attempt = 0]
            ELSE IF d.KEY \in PRODUCT_CM_FIELDS
            THEN [d EXCEPT !.pc = "read", !.cm = "prod", !.attempt = 0]
            ELSE [d EXCEPT !.pc = "done"]
    /\ UNCHANGED <<store, rvCounter, faults, u, m, g>>

\* `break` in modify_config_map, then the rest of modify
DAfterBreak(attempt) ==
    IF d.KEY = NoKey /\ d.cm = "main"
    THEN [d EXCEPT !.pc = "read", !.cm = "prod", !.attempt = 0]
    ELSE [d EXCEPT !.pc = "done", !.attempt = attempt]

\* one loop iteration up to the patch: attempt += 1, read, decide
DRead ==
    /\ d.pc = "read"
    /\ LET attempt == DCount(d.attempt)
       IN  IF ~Exists(DName)
           THEN d' = IF attempt < DMaxAttempts
                     THEN [d EXCEPT !.attempt = attempt]
                     ELSE [d EXCEPT !.attempt = attempt, !.pc = "failed", !.why = "not_found"]
           ELSE LET response == store[DName]
                    dec == DDecide(response.data, d.PRODUCT, d.PRODUCT_VERSION, d.KEY)
                IN  IF dec.next = "break" THEN d' = DAfterBreak(attempt)
                    ELSE IF dec.next = "crash"
                    THEN d' = [d EXCEPT !.pc = "failed", !.why = "crash", !.attempt = attempt]
                    ELSE d' = [d EXCEPT !.pc = "patch", !.attempt = attempt,
                                        !.seen = response, !.body = dec.body]
    /\ UNCHANGED <<store, rvCounter, faults, u, m, g>>

\* read_namespaced_config_map raises an ApiException other than 404
DReadError ==
    /\ d.pc = "read"
    /\ CanFail
    /\ faults' = faults + 1
    /\ d' = [d EXCEPT !.pc = "failed", !.why = "read_error", !.attempt = DCount(@)]
    /\ UNCHANGED <<store, rvCounter, u, m, g>>

\* the patch call of this iteration with the given metadata.resource_version;
\* whatever the answer, the loop goes on
DPatchWith(resource_version) ==
    /\ d.pc = "patch"
    /\ LET after == patch_namespaced_config_map(DName, d.body, resource_version)
       IN  /\ store' = after
           /\ rvCounter' = IF after # store THEN rvCounter + 1 ELSE rvCounter
           /\ g' = IF after # store THEN g ELSE [g EXCEPT !.rejected = TRUE]
    /\ d' = [d EXCEPT !.pc = "read"]
    /\ UNCHANGED <<faults, u, m>>

\* a deleter that patches with the resource version of its read
DPatchVersioned == DPatchWith({d.seen.rv})

\* the patch of modify_config_map: client.V1ConfigMap(data=config_map_data),
\* no metadata
DPatch == DPatchWith(NoRV)

\* a patch fails for a reason of the backend (an ApiException that is not
\* retried by the client); while the backend rejects writes any number of
\* patches fail, otherwise the failures are counted
DFault == IF g.outage THEN UNCHANGED faults ELSE CanFail /\ faults' = faults + 1

\* patch_namespaced_config_map fails for a reason of the backend
DPatchError ==
    /\ d.pc = "patch"
    /\ DFault
    /\ d' = [d EXCEPT !.pc = "read"]
    /\ UNCHANGED <<store, rvCounter, u, m, g>>

DNext ==
    \/ DMain
    \/ DRead
    \/ DReadError
    \/ DPatch
    \/ DPatchError

DProc(product, version, key) ==
    [PRODUCT |-> product, PRODUCT_VERSION |-> version, KEY |-> key,
     pc |-> "main", why |-> "", cm |-> "main", attempt |-> 0, seen |-> Absent,
     body |-> EmptyDict, call |-> 1]

\* ------------------------------------------------------------------------
\* migration: one process, migration.main.main
\* ------------------------------------------------------------------------
\* main.py: max_attempts
max_attempts == 2
\* config_map_data_handler.rename_config_map: `while attempt < 10`
RENAME_ATTEMPTS == 10

\* the order in which the keys of a ConfigMap's data and the ConfigMaps of a
\* list are visited
ProductOrder == <<Hfp, Sat>>
NameOrder == <<ProductCM(Hfp), ProductCM(Sat), CONFIG_MAP_TEMP, MAIN_CONFIG_MAP>>
InData(config_map_data, p) == p \in DOMAIN config_map_data
products_list(config_map_data) ==
    SelectSeq(ProductOrder, LAMBDA p : InData(config_map_data, p))

\* migrate_config_map_data, per product: the versions that have product
\* fields, with those fields
product_versions_data(product_data) ==
    LET with == {v \in DOMAIN product_data : split_prod(product_data[v]) # EmptyDict}
    IN  [v \in with |-> split_prod(product_data[v])]

\* ... and the versions that have main fields, with those fields
main_versions_data(product_data) ==
    LET with == {v \in DOMAIN product_data : split_main(product_data[v]) # EmptyDict}
    IN  [v \in with |-> split_main(product_data[v])]

\* migrate_config_map_data raises: a value that does not load as a mapping
SplitFails(config_map_data) ==
    \E p \in DOMAIN config_map_data : LoadsNone(config_map_data[p])

\* migrate_config_map_data leaving every field in the main ConfigMap
migrate_whole(config_map_data) ==
    [p \in DOMAIN config_map_data |-> safe_dump(safe_load(config_map_data[p]))]

\* migrate_config_map_data, first return value: the data of the new main ConfigMap
migrate_main(config_map_data) ==
    [p \in DOMAIN config_map_data |->
        LET mvd == main_versions_data(safe_load(config_map_data[p]))
        IN  IF mvd # EmptyDict THEN safe_dump(mvd) ELSE EmptyText]

\* migrate_config_map_data, second return value: product_config_map_data_list
migrate_list(config_map_data) ==
    LET HasProd(p) == product_versions_data(safe_load(config_map_data[p])) # EmptyDict
        withProd == SelectSeq(products_list(config_map_data), HasProd)
    IN  [i \in DOMAIN withProd |->
            [product |-> withProd[i],
             text |-> safe_dump(product_versions_data(safe_load(config_map_data[withProd[i]])))]]

\* ExitHandler.__get_all_created_product_config_maps: the labelled ConfigMaps
\* whose name matches PRODUCT_CONFIG_MAP_PATTERN
Labelled(n) == n \in ObjNames /\ store[n].exists /\ store[n].labels
\* the filter keeping the staging ConfigMap only
TempOnly(n) == Labelled(n) /\ n = CONFIG_MAP_TEMP
\* a listing that returns every ConfigMap of the namespace, unfiltered
AnyConfigMap(n) == n \in ObjNames /\ store[n].exists
RollbackCandidate(n) == Labelled(n) /\ IsProductConfigMap(n)
created_product_config_maps == SelectSeq(NameOrder, RollbackCandidate)

\* kube_apis: a call fails for a reason of the backend (MaxRetryError or
\* ApiException); during an outage any number of calls fail, otherwise the
\* failures are counted
MFault == IF g.outage THEN UNCHANGED faults ELSE CanFail /\ faults' = faults + 1

\* exit_handler.rollback() is called; afterwards main goes on at `next`
\* (SystemExit(1) when next is "failed")
StartRollback(next, why) ==
    [m EXCEPT !.pc = "rb_list", !.rb_next = next, !.rb_why = why]

\* rollback returns
EndRollback(mm) == [mm EXCEPT !.pc = mm.rb_next,
                              !.why = IF mm.rb_next = "failed" THEN mm.rb_why ELSE ""]

\* is_migrated without the comparison of the label
MCheckNoLabel ==
    /\ m.pc = "check"
    /\ m' = IF ~Exists(MAIN_CONFIG_MAP) THEN [m EXCEPT !.pc = "failed", !.why = "crash"]
            ELSE [m EXCEPT !.pc = "read", !.attempt = 0]
    /\ UNCHANGED <<store, rvCounter, faults, u, d, g>>

\* is_migrated, then the start of main
MCheck ==
    /\ m.pc = "check"
    /\ m' = IF ~Exists(MAIN_CONFIG_MAP) THEN [m EXCEPT !.pc = "failed", !.why = "crash"]
            ELSE IF store[MAIN_CONFIG_MAP].labels THEN [m EXCEPT !.pc = "done", !.why = "already"]
            ELSE [m EXCEPT !.pc = "read", !.attempt = 0]
    /\ UNCHANGED <<store, rvCounter, faults, u, d, g>>

\* is_migrated: read_config_map returns None, main_cm.metadata raises
MCheckError ==
    /\ m.pc = "check"
    /\ m' = [m EXCEPT !.pc = "failed", !.why = "crash"]
    /\ MFault
    /\ UNCHANGED <<store, rvCounter, u, d, g>>

\* a main that creates the staging ConfigMap first
AfterCreateTempFirst(list, idx) == "create_temp"

\* after the split: create_product_config_maps, or create_temp_config_map
\* when the list is empty or done
AfterCreate(list, idx) == IF idx > Len(list) THEN "create_temp" ELSE "create_prod"

\* main, top of the loop: attempt += 1, read the main ConfigMap, split its data
MReadCombined ==
    /\ m.pc = "read"
    /\ LET response == store[MAIN_CONFIG_MAP]
           attempt == m.attempt + 1
       IN  m' = IF ~response.exists
                THEN [m EXCEPT !.pc = "failed", !.why = "read", !.attempt = attempt]
                ELSE IF response.data = EmptyDict
                THEN [m EXCEPT !.pc = "failed", !.why = "nodata", !.attempt = attempt]
                ELSE IF SplitFails(response.data)
                THEN [m EXCEPT !.pc = "failed", !.why = "split", !.attempt = attempt]
                ELSE [m EXCEPT !.attempt = attempt,
                               !.init_rv = response.rv,
                               !.main_data = migrate_main(response.data),
                               !.prod_list = migrate_list(response.data),
                               !.idx = 1,
                               !.pc = AfterCreate(migrate_list(response.data), 1)]
    /\ UNCHANGED <<store, rvCounter, faults, u, d, g>>

\* read_config_map returns None
MReadCombinedError ==
    /\ m.pc = "read"
    /\ m' = [m EXCEPT !.pc = "failed", !.why = "read", !.attempt = @ + 1]
    /\ MFault
    /\ UNCHANGED <<store, rvCounter, u, d, g>>

\* create_product_config_maps: one create_config_map call
MCreateProduct ==
    /\ m.pc = "create_prod"
    /\ LET product_data == m.prod_list[m.idx]
           prod_cm_name == format_product_cm_name(MAIN_CONFIG_MAP, product_data.product)
       IN  IF CanCreate(prod_cm_name)
           THEN /\ store' = create_namespaced_config_map(
                                prod_cm_name,
                                [p \in {product_data.product} |-> product_data.text], TRUE)
                /\ rvCounter' = rvCounter + 1
                /\ m' = [m EXCEPT !.idx = @ + 1, !.mutated = TRUE,
                                  !.pc = AfterCreate(m.prod_list, m.idx + 1)]
                /\ g' = [g EXCEPT !.created = @ \cup {prod_cm_name}]
           ELSE /\ m' = [StartRollback("failed", "create_prod") EXCEPT !.mutated = TRUE]
                /\ UNCHANGED <<store, rvCounter, g>>
    /\ UNCHANGED <<faults, u, d>>

\* create_config_map returns False for a reason of the backend
MCreateProductError ==
    /\ m.pc = "create_prod"
    /\ m' = [StartRollback("failed", "create_prod") EXCEPT !.mutated = TRUE]
    /\ MFault
    /\ UNCHANGED <<store, rvCounter, u, d, g>>

\* create_temp_config_map
MCreateTemp ==
    /\ m.pc = "create_temp"
    /\ IF CanCreate(CONFIG_MAP_TEMP)
       THEN /\ store' = create_namespaced_config_map(CONFIG_MAP_TEMP, m.main_data, TRUE)
            /\ rvCounter' = rvCounter + 1
            /\ m' = [m EXCEPT !.pc = "verify", !.mutated = TRUE]
            /\ g' = [g EXCEPT !.created = @ \cup {CONFIG_MAP_TEMP}]
       ELSE /\ m' = [StartRollback("failed", "create_temp") EXCEPT !.mutated = TRUE]
            /\ UNCHANGED <<store, rvCounter, g>>
    /\ UNCHANGED <<faults, u, d>>

MCreateTempError ==
    /\ m.pc = "create_temp"
    /\ m' = [StartRollback("failed", "create_temp") EXCEPT !.mutated = TRUE]
    /\ MFault
    /\ UNCHANGED <<store, rvCounter, u, d, g>>

\* main without the comparison of the two resource versions
AfterVerifyUnchecked(curr_resource_version) == [m EXCEPT !.pc = "rename_delete"]

\* main after the verifying read that returned curr_resource_version
\* (a set: empty when the read returned None)
AfterVerify(curr_resource_version) ==
    IF curr_resource_version # {m.init_rv}
    THEN StartRollback(IF m.attempt < max_attempts THEN "read" ELSE "failed", "modified")
    ELSE [m EXCEPT !.pc = "rename_delete"]

\* main: the verifying read of the main ConfigMap
MVerify ==
    /\ m.pc = "verify"
    /\ m' = AfterVerify(IF Exists(MAIN_CONFIG_MAP) THEN {store[MAIN_CONFIG_MAP].rv} ELSE {})
    /\ UNCHANGED <<store, rvCounter, faults, u, d, g>>

MVerifyError ==
    /\ m.pc = "verify"
    /\ m' = AfterVerify({})
    /\ MFault
    /\ UNCHANGED <<store, rvCounter, u, d, g>>

\* rollback: list_config_map_names and the pattern filter
MRollbackList ==
    /\ m.pc = "rb_list"
    /\ LET todo == created_product_config_maps
           mm == [m EXCEPT !.rb_todo = todo, !.rb_left = <<>>, !.rb_listed = TRUE,
                           !.pc = "rb_delete"]
       IN  m' = IF todo = <<>> THEN EndRollback(mm) ELSE mm
    /\ UNCHANGED <<store, rvCounter, faults, u, d, g>>

\* list_config_map returns None: no names, "Rollback successful"
MRollbackListError ==
    /\ m.pc = "rb_list"
    /\ m' = EndRollback([m EXCEPT !.rb_todo = <<>>, !.rb_left = <<>>, !.rb_listed = FALSE])
    /\ MFault
    /\ UNCHANGED <<store, rvCounter, u, d, g>>

\* a rollback that gives up at the first delete that fails
AfterRollbackDeleteStops(deleted) ==
    LET mm == [m EXCEPT !.rb_todo = IF deleted THEN Tail(@) ELSE <<>>, !.mutated = TRUE,
                        !.rb_left = IF deleted THEN @ ELSE Append(@, Head(m.rb_todo))]
    IN  IF mm.rb_todo = <<>> THEN EndRollback(mm) ELSE mm

\* rollback after the delete call for the head of the list returned `deleted`
AfterRollbackDelete(deleted) ==
    LET mm == [m EXCEPT !.rb_todo = Tail(@), !.mutated = TRUE,
                        !.rb_left = IF deleted THEN @ ELSE Append(@, Head(m.rb_todo))]
    IN  IF mm.rb_todo = <<>> THEN EndRollback(mm) ELSE mm

\* rollback: one delete_config_map call
MRollbackDelete ==
    /\ m.pc = "rb_delete"
    /\ LET config_map == Head(m.rb_todo)
       IN  IF CanDelete(config_map)
           THEN /\ store' = delete_namespaced_config_map(config_map)
                /\ m' = AfterRollbackDelete(TRUE)
                /\ g' = [g EXCEPT !.foreign = @ \/ config_map \notin g.created]
           ELSE /\ m' = AfterRollbackDelete(FALSE)
                /\ UNCHANGED <<store, g>>
    /\ UNCHANGED <<rvCounter, faults, u, d>>

MRollbackDeleteError ==
    /\ m.pc = "rb_delete"
    /\ m' = AfterRollbackDelete(FALSE)
    /\ MFault
    /\ UNCHANGED <<store, rvCounter, u, d, g>>

\* rename_config_map returns False: main calls rollback and exits with 1
RenameFailed == StartRollback("failed", "rename")

\* rename_config_map: delete_config_map(rename_to), the main ConfigMap
MRenameDelete ==
    /\ m.pc = "rename_delete"
    /\ IF CanDelete(MAIN_CONFIG_MAP)
       THEN /\ store' = delete_namespaced_config_map(MAIN_CONFIG_MAP)
            /\ m' = [m EXCEPT !.pc = "rename_read", !.rattempt = 0,
                              !.mutated = TRUE, !.renaming = TRUE]
       ELSE /\ m' = [RenameFailed EXCEPT !.mutated = TRUE, !.renaming = TRUE]
            /\ UNCHANGED store
    /\ UNCHANGED <<rvCounter, faults, u, d, g>>

MRenameDeleteError ==
    /\ m.pc = "rename_delete"
    /\ m' = [RenameFailed EXCEPT !.mutated = TRUE, !.renaming = TRUE]
    /\ MFault
    /\ UNCHANGED <<store, rvCounter, u, d, g>>

\* rename_config_map: `continue` in the loop `while attempt < 10`; past the
\* loop del_failed is False and the function returns False
RenameLoop(attempt) ==
    IF attempt < RENAME_ATTEMPTS
    THEN [m EXCEPT !.pc = "rename_read", !.rattempt = attempt]
    ELSE [RenameFailed EXCEPT !.rattempt = attempt]

\* rename_config_map, top of the loop: attempt += 1, read rename_from
MRenameRead ==
    /\ m.pc = "rename_read"
    /\ m' = IF Exists(CONFIG_MAP_TEMP)
            THEN [m EXCEPT !.pc = "rename_create", !.rattempt = @ + 1,
                           !.cm_data = store[CONFIG_MAP_TEMP].data]
            ELSE RenameLoop(m.rattempt + 1)
    /\ UNCHANGED <<store, rvCounter, faults, u, d, g>>

MRenameReadError ==
    /\ m.pc = "rename_read"
    /\ m' = RenameLoop(m.rattempt + 1)
    /\ MFault
    /\ UNCHANGED <<store, rvCounter, u, d, g>>

\* rename_config_map: create_config_map(rename_to, ..., cm_data, label)
MRenameCreate ==
    /\ m.pc = "rename_create"
    /\ IF CanCreate(MAIN_CONFIG_MAP)
       THEN /\ store' = create_namespaced_config_map(MAIN_CONFIG_MAP, m.cm_data, TRUE)
            /\ rvCounter' = rvCounter + 1
            /\ m' = [m EXCEPT !.pc = "rename_delete_temp", !.dest_created = TRUE]
            /\ g' = [g EXCEPT !.created = @ \cup {MAIN_CONFIG_MAP}]
       ELSE /\ m' = RenameLoop(m.rattempt)
            /\ UNCHANGED <<store, rvCounter, g>>
    /\ UNCHANGED <<faults, u, d>>

MRenameCreateError ==
    /\ m.pc = "rename_create"
    /\ m' = RenameLoop(m.rattempt)
    /\ MFault
    /\ UNCHANGED <<store, rvCounter, u, d, g>>

\* main after rename_config_map returned True
Migrated == [m EXCEPT !.pc = "done", !.why = "migrated"]

\* rename_config_map returning False when the second loop is used up
RetryLoopFails(attempt) ==
    IF attempt < RENAME_ATTEMPTS
    THEN [m EXCEPT !.dattempt = attempt]
    ELSE [RenameFailed EXCEPT !.dattempt = attempt]

\* rename_config_map, second loop `while attempt < 10` after attempt += 1 and
\* a failed delete; past the loop the function returns True
RetryLoop(attempt) ==
    IF attempt < RENAME_ATTEMPTS
    THEN [m EXCEPT !.dattempt = attempt]
    ELSE [Migrated EXCEPT !.dattempt = attempt]

\* rename_config_map after a failed delete_config_map(rename_from): the first
\* failure sets del_failed and leaves the first loop, the later ones are
\* failures in the second loop
AfterDeleteFailed ==
    IF ~m.del_failed THEN [m EXCEPT !.del_failed = TRUE, !.dattempt = 0]
    ELSE RetryLoop(m.dattempt + 1)

\* rename_config_map: delete_config_map(rename_from), in the first loop and
\* again in the second
MRenameDeleteTemp ==
    /\ m.pc = "rename_delete_temp"
    /\ IF CanDelete(CONFIG_MAP_TEMP)
       THEN /\ store' = delete_namespaced_config_map(CONFIG_MAP_TEMP)
            /\ m' = [Migrated EXCEPT !.dattempt = IF m.del_failed THEN @ + 1 ELSE @]
       ELSE /\ m' = AfterDeleteFailed
            /\ UNCHANGED store
    /\ UNCHANGED <<rvCounter, faults, u, d, g>>

MRenameDeleteTempError ==
    /\ m.pc = "rename_delete_temp"
    /\ m' = AfterDeleteFailed
    /\ MFault
    /\ UNCHANGED <<store, rvCounter, u, d, g>>

\* the migration process at the start of a run of main
MProc(run) ==
    [pc |-> "check", why |-> "", run |-> run, attempt |-> 0, init_rv |-> 0,
     main_data |-> EmptyDict, prod_list |-> <<>>, idx |-> 0,
     rattempt |-> 0, dattempt |-> 0, cm_data |-> EmptyDict,
     rb_todo |-> <<>>, rb_left |-> <<>>, rb_listed |-> FALSE,
     rb_next |-> "", rb_why |-> "",
     mutated |-> FALSE, renaming |-> FALSE, dest_created |-> FALSE, del_failed |-> FALSE]

\* number of runs of the migration in one behaviour
MaxRuns == 2

\* the migration is run again after a run that succeeded
MRestart ==
    /\ m.pc = "done"
    /\ m.run < MaxRuns
    /\ m' = MProc(m.run + 1)
    /\ g' = [g EXCEPT !.snap = store]
    /\ UNCHANGED <<store, rvCounter, faults, u, d>>

MNext ==
    \/ MCheck \/ MCheckError
    \/ MReadCombined \/ MReadCombinedError
    \/ MCreateProduct \/ MCreateProductError
    \/ MCreateTemp \/ MCreateTempError
    \/ MVerify \/ MVerifyError
    \/ MRollbackList \/ MRollbackListError
    \/ MRollbackDelete \/ MRollbackDeleteError
    \/ MRenameDelete \/ MRenameDeleteError
    \/ MRenameRead \/ MRenameReadError
    \/ MRenameCreate \/ MRenameCreateError
    \/ MRenameDeleteTemp \/ MRenameDeleteTempError
    \/ MRestart

\* ------------------------------------------------------------------------
\* Concurrent updates of distinct versions of one product
\* ------------------------------------------------------------------------
\* YAML contents handed to the writers
DocMainOnly == [configuration |-> Map([commit |-> Leaf("c1")])]
DocBoth == [configuration |-> Map([clone_url |-> Leaf("u2")]),
            component_versions |-> Map([docker |-> Leaf("img")])]
Docs == {DocMainOnly, DocBoth}

VersionOf(w) == ToString(w) \o ".0"

UProc(product, version, data, overwrite, set_active, remove_active) ==
    [PRODUCT |-> product, PRODUCT_VERSION |-> version, data |-> data,
     UPDATE_OVERWRITE |-> overwrite, SET_ACTIVE_VERSION |-> set_active,
     REMOVE_ACTIVE_FIELD |-> remove_active,
     pc |-> "main", why |-> "", cm |-> "main", attempt |-> 0, seen |-> Absent, body |-> EmptyDict,
     call |-> 1, repeat |-> FALSE]

DOff == [pc |-> "off"]
MOff == [pc |-> "off"]

\* history at the start of a behaviour: nothing rejected, created or deleted yet
GInit ==
    [rejected |-> FALSE,    \* a patch was answered with 409 Conflict
     created |-> {},        \* names of the ConfigMaps the migration created
     foreign |-> FALSE,     \* rollback deleted a ConfigMap the migration had not created
     orig |-> Absent,       \* the main ConfigMap before the migration
     snap |-> <<>>,         \* the store when the latest run of the migration began
     outage |-> FALSE]      \* the backend fails any number of calls of the migration

\* the main ConfigMap exists without data, no product ConfigMap exists
EmptyStore == [n \in ObjNames |-> IF n = MAIN_CONFIG_MAP THEN Object(EmptyDict, 1, FALSE) ELSE Absent]

InitConv ==
    /\ store = EmptyStore
    /\ rvCounter = 1
    /\ faults = 0
    /\ \E k \in 0..NumWriters :
          u = [w \in Writers |-> UProc(Sat, VersionOf(w),
                                       IF w <= k THEN DocBoth ELSE DocMainOnly,
                                       FALSE, FALSE, FALSE)]
    /\ d = DOff
    /\ m = MOff
    /\ g = GInit

UNext(w) ==
    \/ UMain(w)
    \/ URead(w)
    \/ UReadError(w)
    \/ UCreate(w)
    \/ UCreateError(w)
    \/ UPatch(w)
    \/ UPatchError(w)

NextConv == \E w \in Writers : UNext(w)

SpecConv == InitConv /\ [][NextConv]_vars

\* what a call stores for its version when it runs alone on the empty main
\* ConfigMap: the merge of its main fields into an empty document
StoredAlone(w) == merge_dict(split_main(u[w].data), EmptyDict)

AllDone == \A w \in Writers : u[w].pc = "done"

\* the main ConfigMap's document of (product, version), EmptyDict if there is none
MainDoc(product, version) ==
    LET data == store[MAIN_CONFIG_MAP].data
    IN  IF /\ store[MAIN_CONFIG_MAP].exists
           /\ product \in DOMAIN data
           /\ ~LoadsNone(data[product])
           /\ version \in DOMAIN safe_load(data[product])
        THEN safe_load(data[product])[version]
        ELSE EmptyDict

HasMainDoc(product, version) ==
    LET data == store[MAIN_CONFIG_MAP].data
    IN  /\ store[MAIN_CONFIG_MAP].exists
        /\ product \in DOMAIN data
        /\ ~LoadsNone(data[product])
        /\ version \in DOMAIN safe_load(data[product])

\* C1: update convergence.  Once every one of the concurrent merge-mode calls
\* for distinct versions of one product has reported success, the main
\* ConfigMap holds every version, each with the main fields the call would
\* have stored when run alone.
C1_Convergence ==
    AllDone =>
        \A w \in Writers :
            /\ HasMainDoc(u[w].PRODUCT, u[w].PRODUCT_VERSION)
            /\ MainDoc(u[w].PRODUCT, u[w].PRODUCT_VERSION) = StoredAlone(w)

\* all calls succeeded although at least one patch was rejected on the way
C1_Witness == AllDone /\ g.rejected

\* C2: a patch of update_config_map is applied only to the object exactly as
\* the read of the same iteration returned it; when the object changed after
\* that read the patch changes nothing and the call goes back to reading
\* (or stops, its attempts used up).
C2_VersionedWrite ==
    [][\A w \in Writers :
          (u[w].pc = "patch" /\ u'[w].pc # "patch") =>
              /\ (store' # store => store[UName(w)] = u[w].seen)
              /\ (store[UName(w)] # u[w].seen =>
                     /\ store' = store
                     /\ u'[w].pc = IF u[w].attempt < retries THEN "read" ELSE "failed")]_vars

\* a call whose patch was rejected because another call wrote after its read
\* is reading again
C2_Witness ==
    \E w \in Writers :
        /\ u[w].pc = "read"
        /\ u[w].attempt > 0
        /\ g.rejected
        /\ store[UName(w)].rv # u[w].seen.rv
        /\ u[w].seen.exists

\* ------------------------------------------------------------------------
\* A delete running against one concurrent update
\* ------------------------------------------------------------------------
UOff == [UProc(Sat, "", EmptyDict, FALSE, FALSE, FALSE) EXCEPT !.pc = "off"]

StoredMainDoc == [configuration |-> Map([commit |-> Leaf("c0")])]
StoredProdDoc == [component_versions |-> Map([docker |-> Leaf("img0")])]

\* partitioned layout: version 1.0 of Sat in the main and in its product ConfigMap
PartitionedStore ==
    [n \in ObjNames |->
        IF n = MAIN_CONFIG_MAP
        THEN Object([p \in {Sat} |-> safe_dump([v \in {"1.0"} |-> StoredMainDoc])], 1, TRUE)
        ELSE IF n = ProductCM(Sat)
        THEN Object([p \in {Sat} |-> safe_dump([v \in {"1.0"} |-> StoredProdDoc])], 2, TRUE)
        ELSE Absent]

\* version 1.0 of Sat has main fields only, Sat has no product ConfigMap
MainOnlyStore ==
    [n \in ObjNames |->
        IF n = MAIN_CONFIG_MAP
        THEN Object([p \in {Sat} |-> safe_dump([v \in {"1.0"} |-> StoredMainDoc])], 1, TRUE)
        ELSE Absent]

DeleteKeys == {NoKey, "configuration", "component_versions", "other"}

InitDel ==
    /\ store \in {PartitionedStore, MainOnlyStore}
    /\ rvCounter = 2
    /\ faults = 0
    /\ \E doc \in Docs :
          u = [w \in Writers |-> IF w = 1 THEN UProc(Sat, "2.0", doc, FALSE, FALSE, FALSE)
                                 ELSE UOff]
    /\ \E key \in DeleteKeys : d = DProc(Sat, "1.0", key)
    /\ m = MOff
    /\ g = GInit

NextDel == DNext \/ \E w \in Writers : UNext(w)

SpecDel == InitDel /\ [][NextDel]_vars

\* C3: a patch of modify_config_map is applied only to the object exactly as
\* the read of the same iteration returned it; when another writer changed the
\* object after that read the patch changes nothing and the loop reads again.
C3_VersionedDelete ==
    [][(d.pc = "patch" /\ d'.pc # "patch") =>
          /\ (store' # store => store[DName] = d.seen)
          /\ (store[DName] # d.seen => store' = store /\ d'.pc = "read")]_vars

\* ------------------------------------------------------------------------
\* Migration of a combined catalog, with an update running beside it
\* ------------------------------------------------------------------------
\* a combined catalog: Sat 1.0 has fields of both kinds, HF_p 1.0 has product
\* fields only
Combined1 ==
    (Sat :> safe_dump([v \in {"1.0"} |-> StoredMainDoc @@ StoredProdDoc]))
    @@ (Hfp :> safe_dump([v \in {"1.0"} |-> StoredProdDoc]))

\* a combined catalog: Sat 1.0 has main fields only, Sat 3.0 has fields of
\* both kinds
Combined2 ==
    (Sat :> safe_dump([v \in {"1.0", "3.0"} |->
                 IF v = "1.0" THEN StoredMainDoc ELSE StoredMainDoc @@ StoredProdDoc]))

CombinedData == {Combined1, Combined2}

CombinedStore(config_map_data) ==
    [n \in ObjNames |-> IF n = MAIN_CONFIG_MAP THEN Object(config_map_data, 1, FALSE)
                        ELSE Absent]

InitMig ==
    /\ store \in {CombinedStore(cd) : cd \in CombinedData} \cup {PartitionedStore}
    /\ rvCounter = 2
    /\ faults = 0
    /\ u = [w \in Writers |-> UOff]
    /\ d = DOff
    /\ m = MProc(1)
    /\ g = [GInit EXCEPT !.orig = store[MAIN_CONFIG_MAP], !.snap = store, !.outage = TRUE]

NextMig == MNext

SpecMig == InitMig /\ [][NextMig]_vars

\* the same with an update of version 2.0 of Sat running beside the migration
InitMigW ==
    /\ store \in {CombinedStore(cd) : cd \in CombinedData}
    /\ rvCounter = 2
    /\ faults = 0
    /\ \E doc \in Docs :
          u = [w \in Writers |-> IF w = 1 THEN UProc(Sat, "2.0", doc, FALSE, FALSE, FALSE)
                                 ELSE UOff]
    /\ d = DOff
    /\ m = MProc(1)
    /\ g = [GInit EXCEPT !.orig = store[MAIN_CONFIG_MAP], !.snap = store]

NextMigW == MNext \/ \E w \in Writers : UNext(w)

SpecMigW == InitMigW /\ [][NextMigW]_vars

\* the run of the migration is over
MOver == m.pc \in {"done", "failed"}

\* the product ConfigMap's document of (product, version), EmptyDict if there is none
ProdDoc(product, version) ==
    LET name == ProductCM(product)
        data == store[name].data
    IN  IF /\ Exists(name)
           /\ product \in DOMAIN data
           /\ ~LoadsNone(data[product])
           /\ version \in DOMAIN safe_load(data[product])
        THEN safe_load(data[product])[version]
        ELSE EmptyDict

\* C4: atomic cutover.  When a run of the migration on a combined catalog has
\* reported failure, the main ConfigMap is there exactly as it was before the
\* run, and the rollback has deleted only ConfigMaps the migration created.
C4_AtomicCutover ==
    (m.pc = "failed" /\ m.run = 1 /\ ~g.orig.labels) =>
        /\ store[MAIN_CONFIG_MAP] = g.orig
        /\ ~g.foreign

\* the products whose product ConfigMap the latest attempt has created
CreatedProducts == {m.prod_list[i].product : i \in 1..(m.idx - 1)}

\* the run failed at create_temp_config_map or at a later call of
\* create_product_config_maps, after product ConfigMaps had been created
TempCreationFailed ==
    /\ m.pc = "failed" /\ m.why \in {"create_temp", "create_prod"}
    /\ CreatedProducts # {}

\* that failure has left nothing of the attempt behind
CleanedUp ==
    /\ \A p \in CreatedProducts : ~Exists(ProductCM(p))
    /\ ~m.renaming
    /\ store[MAIN_CONFIG_MAP] = g.orig

OrigProducts == DOMAIN g.orig.data
OrigVersions(p) == DOMAIN safe_load(g.orig.data[p])
OrigDoc(p, v) == safe_load(g.orig.data[p])[v]

\* C7: lossless repartition.  After a successful migration of a combined
\* catalog, for every product p and version v of the original the main
\* ConfigMap holds for (p, v) exactly the fields outside the product fields,
\* the ConfigMap named after p holds for (p, v) exactly the product fields,
\* and that ConfigMap exists exactly when some version of p has product
\* fields.  (A version left without fields of one kind has no entry there.)
C7_Lossless ==
    (m.pc = "done" /\ ~g.orig.labels) =>
        \A p \in OrigProducts :
            /\ \A v \in OrigVersions(p) :
                  /\ MainDoc(p, v) = split_main(OrigDoc(p, v))
                  /\ ProdDoc(p, v) = split_prod(OrigDoc(p, v))
            /\ Exists(ProductCM(p)) <=>
                  \E v \in OrigVersions(p) : split_prod(OrigDoc(p, v)) # EmptyDict

C7_Witness ==
    /\ m.pc = "done" /\ m.why = "migrated"
    /\ g.orig.data = Combined1
    /\ store[MAIN_CONFIG_MAP].labels
    /\ store[MAIN_CONFIG_MAP].data[Hfp] = EmptyText
    /\ MainDoc(Sat, "1.0") = StoredMainDoc
    /\ ProdDoc(Sat, "1.0") = StoredProdDoc
    /\ ProdDoc(Hfp, "1.0") = StoredProdDoc

\* the verifying read sees another resource version than the first read, or
\* no main ConfigMap
TokenChanged == ~Exists(MAIN_CONFIG_MAP) \/ store[MAIN_CONFIG_MAP].rv # m.init_rv

\* C9: migration retry under interference.  When the verifying read shows a
\* changed resource version the attempt leaves the main ConfigMap alone,
\* rolls back and goes back to the first read, for at most max_attempts
\* attempts; after a changed version in the last attempt the run reports
\* failure and the rename was never started.
C9_RetryUnderInterference ==
    /\ [](m.pc # "off" => m.attempt <= max_attempts)
    /\ []((m.pc = "failed" /\ m.why = "modified") =>
             m.attempt = max_attempts /\ ~m.renaming)
    /\ []((m.pc \in {"rb_list", "rb_delete"} /\ m.rb_why = "modified") => ~m.renaming)
    /\ [][(m.pc = "verify" /\ m' # m /\ TokenChanged) =>
             /\ store' = store
             /\ m'.pc = "rb_list"
             /\ m'.rb_next = IF m.attempt < max_attempts THEN "read" ELSE "failed"]_vars
    /\ [][(m.pc \in {"rb_list", "rb_delete"} /\ m'.pc \notin {"rb_list", "rb_delete"}
           /\ m.rb_why = "modified") =>
             /\ m'.pc = m.rb_next
             /\ store'[MAIN_CONFIG_MAP] = store[MAIN_CONFIG_MAP]]_vars

C9_Witness ==
    /\ m.pc = "failed" /\ m.why = "modified" /\ m.attempt = max_attempts
    /\ Exists(MAIN_CONFIG_MAP)
    /\ store[MAIN_CONFIG_MAP].rv # g.orig.rv
    /\ HasMainDoc(Sat, "2.0")

\* C10: rename tolerates cleanup failure.  Once the rename has created the
\* destination the run can only go on to delete the staging ConfigMap and
\* end in success, also when the first delete and all RENAME_ATTEMPTS
\* retries fail.
C10_SuccessAfterCreate ==
    m.dest_created => m.pc \in {"rename_delete_temp", "done"}

C10_Witness ==
    /\ m.pc = "done" /\ m.dest_created
    /\ m.del_failed /\ m.dattempt = RENAME_ATTEMPTS
    /\ Exists(CONFIG_MAP_TEMP)
    /\ Exists(MAIN_CONFIG_MAP) /\ store[MAIN_CONFIG_MAP].labels

\* ------------------------------------------------------------------------
\* One update in any mode
\* ------------------------------------------------------------------------
Versions == {"1.0", "2.0"}

\* a product name for which format_product_cm_name returns ''
Bad == <<"s", "_">>
ModeProducts == {Sat, Bad}

\* a document that itself has the field `active`
DocActive == [configuration |-> Map([commit |-> Leaf("c0")]), active |-> Leaf("True")]
ModeDocs == Docs \cup {DocActive}

\* number of calls of catalog_update one writer makes in a behaviour
MaxCalls == 2

InitModes ==
    /\ store \in {EmptyStore, PartitionedStore}
    /\ rvCounter = 2
    /\ faults = 0
    /\ \E product \in ModeProducts, version \in Versions, doc \in ModeDocs,
          overwrite, set_active, remove_active \in BOOLEAN :
          u = [w \in Writers |->
                  IF w = 1 THEN UProc(product, version, doc, overwrite, set_active, remove_active)
                  ELSE UOff]
    /\ d = DOff
    /\ m = MOff
    /\ g = [GInit EXCEPT !.snap = store]

\* catalog_update is run again after a run that succeeded, for the same
\* product, version and document, in any mode
URestart(w) ==
    /\ u[w].pc = "done"
    /\ u[w].call < MaxCalls
    /\ \E overwrite, set_active, remove_active \in BOOLEAN :
          u' = [u EXCEPT ![w] =
                  [UProc(u[w].PRODUCT, u[w].PRODUCT_VERSION, u[w].data,
                         overwrite, set_active, remove_active)
                   EXCEPT !.call = u[w].call + 1,
                          !.repeat = /\ overwrite = u[w].UPDATE_OVERWRITE
                                     /\ set_active = u[w].SET_ACTIVE_VERSION
                                     /\ remove_active = u[w].REMOVE_ACTIVE_FIELD]]
    /\ g' = [g EXCEPT !.snap = store]
    /\ UNCHANGED <<store, rvCounter, faults, d, m>>

NextModes == \E w \in Writers : UNext(w) \/ URestart(w)

SpecModes == InitModes /\ [][NextModes]_vars

\* C8: partition disjointness.  For every product and version, no top-level
\* field is both in the main ConfigMap's document and in the product
\* ConfigMap's document.
C8_Disjoint ==
    \A p \in Products, v \in Versions :
        DOMAIN MainDoc(p, v) \cap DOMAIN ProdDoc(p, v) = {}

\* the call of writer w has issued no backend operation: it is before or at
\* the end of main's checks, has read nothing, and the store is as it was
\* when the call began
NothingIssued(w) ==
    /\ u[w].pc \in {"main", "failed"}
    /\ u[w].pc = "failed" => u[w].why = "precondition"
    /\ u[w].attempt = 0
    /\ store = g.snap

\* C11: a call with both SET_ACTIVE_VERSION and REMOVE_ACTIVE_FIELD fails
\* before any backend operation: nothing is read, created or written and the
\* store is unchanged.
C11_BothModesFailFast ==
    \A w \in Writers :
        (u[w].SET_ACTIVE_VERSION /\ u[w].REMOVE_ACTIVE_FIELD) => NothingIssued(w)

C11_Witness ==
    /\ u[1].pc = "failed" /\ u[1].why = "precondition"
    /\ u[1].SET_ACTIVE_VERSION /\ u[1].REMOVE_ACTIVE_FIELD
    /\ u[1].PRODUCT = Sat /\ u[1].data = DocBoth
    /\ store = PartitionedStore

\* C12: when the product ConfigMap name is '' and the document has product
\* fields the call fails as a whole before anything is read, created or
\* written.
C12_InvalidNameFailsWhole ==
    \A w \in Writers :
        (u[w].pc # "off" /\ ProductCM(u[w].PRODUCT) = EmptyString
         /\ split_prod(u[w].data) # EmptyDict) => NothingIssued(w)

C12_Witness ==
    /\ u[1].pc = "failed" /\ u[1].why = "precondition"
    /\ ~(u[1].SET_ACTIVE_VERSION /\ u[1].REMOVE_ACTIVE_FIELD)
    /\ u[1].PRODUCT = Bad /\ u[1].data = DocBoth
    /\ store = PartitionedStore

\* C13: a call whose document has no product field does nothing to the
\* product ConfigMap: update_config_map is never called for it and the
\* object stays as it was, resource version included.
C13_ProductObjectUntouched ==
    \A w \in Writers :
        (u[w].pc # "off" /\ split_prod(u[w].data) = EmptyDict) =>
            /\ u[w].cm = "main"
            /\ ProductCM(u[w].PRODUCT) \in ObjNames =>
                  store[ProductCM(u[w].PRODUCT)] = g.snap[ProductCM(u[w].PRODUCT)]

C13_Witness ==
    /\ u[1].pc = "done" /\ u[1].data = DocMainOnly /\ u[1].PRODUCT = Sat
    /\ store[MAIN_CONFIG_MAP] # g.snap[MAIN_CONFIG_MAP]
    /\ Exists(ProductCM(Sat))
    /\ store[ProductCM(Sat)] = PartitionedStore[ProductCM(Sat)]

\* the object writer w is about to read stores, for the target version, a
\* document equal to the merge of the call's document into it, and the active
\* field is as the mode of the call wants it
AlreadyStored(w) ==
    LET config_map_data == store[UName(w)].data
        PRODUCT == u[w].PRODUCT
        product_data == safe_load(config_map_data[PRODUCT])
        stored == product_data[u[w].PRODUCT_VERSION]
    IN  /\ Exists(UName(w))
        /\ PRODUCT \in DOMAIN config_map_data
        /\ ~LoadsNone(config_map_data[PRODUCT])
        /\ u[w].PRODUCT_VERSION \in DOMAIN product_data
        /\ merge_dict(UData(w), stored) = stored
        /\ u[w].SET_ACTIVE_VERSION => current_version_is_active(product_data, u[w].PRODUCT_VERSION)
        /\ u[w].REMOVE_ACTIVE_FIELD => ~active_field_exists(product_data)

\* C14: no-op short-circuit.  A read that is answered with an object in which
\* the document and the active field are already as the call wants them ends
\* the work on that object without a patch and without a change of the
\* object; a call repeated with the same arguments issues no patch.
C14_NoOpShortCircuit ==
    /\ [][\A w \in Writers :
            (u[w].pc = "read" /\ u'[w] # u[w] /\ faults' = faults /\ AlreadyStored(w)) =>
               /\ store' = store
               /\ u'[w].pc \in {"done", "read"}
               /\ u'[w].pc = "read" => (u[w].cm = "main" /\ u'[w].cm = "prod")]_vars
    /\ [](\A w \in Writers : u[w].repeat => u[w].pc # "patch")

\* in the store st the ConfigMap `name` has a document for (product, version)
HasDocIn(st, name, product, version) ==
    /\ name \in ObjNames
    /\ st[name].exists
    /\ product \in DOMAIN st[name].data
    /\ ~LoadsNone(st[name].data[product])
    /\ version \in DOMAIN safe_load(st[name].data[product])

\* that document, EmptyDict if there is none
DocIn(st, name, product, version) ==
    IF HasDocIn(st, name, product, version)
    THEN safe_load(st[name].data[product])[version]
    ELSE EmptyDict

\* the document without the field `active`
WithoutActive(doc) == Pop(doc, "active")

\* C15: overwrite mode.  When a call with UPDATE_OVERWRITE has reported
\* success for a version that had a document in the main ConfigMap when the
\* call began, the stored document is the main part of the call's document
\* (the field `active`, which the active mode governs, left aside): fields
\* stored before and absent from the call's document are gone, fields with
\* another value carry the call's value.
C15_OverwriteVerbatim ==
    \A w \in Writers :
        (/\ u[w].pc = "done" /\ u[w].UPDATE_OVERWRITE
         /\ HasDocIn(g.snap, MAIN_CONFIG_MAP, u[w].PRODUCT, u[w].PRODUCT_VERSION)) =>
            WithoutActive(MainDoc(u[w].PRODUCT, u[w].PRODUCT_VERSION))
                = WithoutActive(split_main(u[w].data))

\* in product_data the version has active = True and every other version has
\* active = False
ExactlyActive(product_data, version) ==
    /\ version \in DOMAIN product_data
    /\ \A v \in DOMAIN product_data :
          /\ "active" \in DOMAIN product_data[v]
          /\ product_data[v]["active"] = (IF v = version THEN Leaf("True") ELSE Leaf("False"))

\* the object writer w reads shows its version active and no other version
\* of the product active
ReadShowsActive(w) ==
    /\ HasDocIn(store, UName(w), u[w].PRODUCT, u[w].PRODUCT_VERSION)
    /\ current_version_is_active(safe_load(store[UName(w)].data[u[w].PRODUCT]),
                                 u[w].PRODUCT_VERSION)

\* the work of writer w on the current object ends with this step
EndsObject(w) ==
    \/ u'[w].pc = "done"
    \/ u'[w].pc = "read" /\ u'[w].cm # u[w].cm

\* C16: active-version exclusivity.  Every patch of a call with
\* SET_ACTIVE_VERSION sets active to True on the call's version and to False
\* on every other version of the product in that object, and such a call
\* leaves an object with success only on a read that shows the version active
\* and no other version of the product active.
C16_ActiveExclusive ==
    /\ [](\A w \in Writers :
            (u[w].pc = "patch" /\ u[w].SET_ACTIVE_VERSION) =>
                ExactlyActive(safe_load(u[w].body[u[w].PRODUCT]), u[w].PRODUCT_VERSION))
    /\ [][\A w \in Writers :
            (u[w].pc = "read" /\ u[w].SET_ACTIVE_VERSION /\ EndsObject(w)) =>
                ReadShowsActive(w)]_vars

\* ------------------------------------------------------------------------
\* Deletes alone, one after the other
\* ------------------------------------------------------------------------
StoredImages == [images |-> Map([sles |-> Leaf("id0")])]

\* version 1.0 of Sat has two main fields and one product field
TwoFieldStore ==
    [n \in ObjNames |->
        IF n = MAIN_CONFIG_MAP
        THEN Object([p \in {Sat} |->
                        safe_dump([v \in {"1.0"} |-> StoredMainDoc @@ StoredImages])], 1, TRUE)
        ELSE IF n = ProductCM(Sat)
        THEN Object([p \in {Sat} |-> safe_dump([v \in {"1.0"} |-> StoredProdDoc])], 2, TRUE)
        ELSE Absent]

\* both ConfigMaps exist and have no entry for Sat
NoProductStore ==
    [n \in ObjNames |->
        IF n = MAIN_CONFIG_MAP THEN Object(EmptyDict, 1, TRUE)
        ELSE IF n = ProductCM(Sat) THEN Object(EmptyDict, 2, TRUE)
        ELSE Absent]

InitDelSeq ==
    /\ store \in {PartitionedStore, MainOnlyStore, TwoFieldStore, NoProductStore}
    /\ rvCounter = 2
    /\ faults = 0
    /\ u = [w \in Writers |-> UOff]
    /\ \E version \in Versions, key \in DeleteKeys : d = DProc(Sat, version, key)
    /\ m = MOff
    /\ g = [GInit EXCEPT !.snap = store]

\* catalog_delete is run again with the same arguments after a run that
\* succeeded
DRestart ==
    /\ d.pc = "done"
    /\ d.call < MaxCalls
    /\ d' = [DProc(d.PRODUCT, d.PRODUCT_VERSION, d.KEY) EXCEPT !.call = d.call + 1]
    /\ g' = [g EXCEPT !.snap = store]
    /\ UNCHANGED <<store, rvCounter, faults, u, m>>

NextDelSeq == DNext \/ DRestart

SpecDelSeq == InitDelSeq /\ [][NextDelSeq]_vars

\* the ConfigMap that holds the field `key`
HolderOf(product, key) ==
    IF key \in PRODUCT_CM_FIELDS THEN ProductCM(product) ELSE MAIN_CONFIG_MAP

\* both ConfigMaps of the product existed when the call began
BothExisted ==
    g.snap[MAIN_CONFIG_MAP].exists /\ g.snap[ProductCM(d.PRODUCT)].exists

\* C17: delete then read.  With both ConfigMaps existing, after a successful
\* delete without a key the version is in neither ConfigMap; after a
\* successful delete of the key that was the only field of the version in
\* the ConfigMap holding it, that ConfigMap has no entry for the version.
C17_DeleteThenRead ==
    (d.pc = "done" /\ BothExisted) =>
        /\ d.KEY = NoKey =>
              /\ ~HasDocIn(store, MAIN_CONFIG_MAP, d.PRODUCT, d.PRODUCT_VERSION)
              /\ ~HasDocIn(store, ProductCM(d.PRODUCT), d.PRODUCT, d.PRODUCT_VERSION)
        /\ (/\ d.KEY \in CONFIG_MAP_FIELDS \cup PRODUCT_CM_FIELDS
            /\ HasDocIn(g.snap, HolderOf(d.PRODUCT, d.KEY), d.PRODUCT, d.PRODUCT_VERSION)
            /\ DOMAIN DocIn(g.snap, HolderOf(d.PRODUCT, d.KEY), d.PRODUCT, d.PRODUCT_VERSION)
                 = {d.KEY}) =>
              ~HasDocIn(store, HolderOf(d.PRODUCT, d.KEY), d.PRODUCT, d.PRODUCT_VERSION)

C17_Witness ==
    /\ d.pc = "done" /\ d.KEY = "configuration" /\ d.PRODUCT_VERSION = "1.0"
    /\ g.snap = PartitionedStore
    /\ ~HasDocIn(store, MAIN_CONFIG_MAP, Sat, "1.0")
    /\ HasDocIn(store, ProductCM(Sat), Sat, "1.0")

\* C18: delete routing.  Without a key the main ConfigMap is modified first
\* and the product ConfigMap after it; a key of the main fields touches the
\* main ConfigMap only, a key of the product fields the product ConfigMap
\* only, and any other key issues no backend operation.
C18_DeleteRouting ==
    LET prod == ProductCM(d.PRODUCT)
    IN  d.pc # "off" =>
        /\ d.KEY = NoKey =>
              /\ d.cm = "main" => store[prod] = g.snap[prod]
              /\ d.cm = "prod" =>
                    ~HasDocIn(store, MAIN_CONFIG_MAP, d.PRODUCT, d.PRODUCT_VERSION)
        /\ d.KEY \in CONFIG_MAP_FIELDS => (d.cm = "main" /\ store[prod] = g.snap[prod])
        /\ d.KEY \in PRODUCT_CM_FIELDS =>
              /\ d.pc # "main" => d.cm = "prod"
              /\ store[MAIN_CONFIG_MAP] = g.snap[MAIN_CONFIG_MAP]
        /\ d.KEY \notin {NoKey} \cup CONFIG_MAP_FIELDS \cup PRODUCT_CM_FIELDS =>
              /\ d.pc \in {"main", "done"}
              /\ d.attempt = 0
              /\ store = g.snap

C18_Witness ==
    /\ d.pc = "done" /\ d.KEY = "component_versions" /\ d.PRODUCT_VERSION = "1.0"
    /\ g.snap = PartitionedStore
    /\ store[MAIN_CONFIG_MAP] = g.snap[MAIN_CONFIG_MAP]
    /\ ~HasDocIn(store, ProductCM(Sat), Sat, "1.0")

\* the object the delete is about to read has no entry for the product, or
\* the product has no entry for the version
EntryAbsent ==
    /\ Exists(DName)
    /\ ~LoadsNone(IF d.PRODUCT \in DOMAIN store[DName].data
                  THEN store[DName].data[d.PRODUCT] ELSE safe_dump(EmptyDict))
    /\ ~HasDocIn(store, DName, d.PRODUCT, d.PRODUCT_VERSION)

\* C19: delete of an absent entry.  A read that is answered with an object
\* without the product, or without the version under the product, ends the
\* work on that object without a patch and leaves the object as it is; a
\* delete repeated after a successful one issues no patch and changes nothing.
C19_DeleteAbsent ==
    /\ [][(d.pc = "read" /\ d' # d /\ faults' = faults /\ EntryAbsent) =>
            /\ store' = store
            /\ d'.pc \in {"done", "read"}
            /\ d'.pc = "read" => (d.cm = "main" /\ d'.cm = "prod")]_vars
    /\ [](d.pc # "off" /\ d.call > 1 => d.pc # "patch" /\ store = g.snap)

C19_Witness ==
    /\ d.pc = "done" /\ d.call = 2 /\ d.KEY = NoKey /\ d.PRODUCT_VERSION = "1.0"
    /\ store = g.snap
    /\ Exists(MAIN_CONFIG_MAP) /\ Exists(ProductCM(Sat))
    /\ Sat \in DOMAIN store[MAIN_CONFIG_MAP].data
    /\ ~HasDocIn(store, MAIN_CONFIG_MAP, Sat, "1.0")

\* the objects other than `name` are what they were
OthersKept(name) == \A n \in ObjNames \ {name} : store'[n] = store[n]

\* C20: NotFound in catalog_update.  A read of the main ConfigMap answered
\* with NotFound creates nothing and leads to the next read (or to the end
\* of the attempts); a read of the product ConfigMap answered with NotFound
\* leads to the creation of an empty ConfigMap that carries the label, after
\* which the loop reads again; a creation that fails ends the call as a
\* failure, and a failed call writes nothing.
C20_NotFoundHandling ==
    [][\A w \in Writers :
          u'[w] # u[w] =>
            LET name == UName(w)
            IN  /\ ~Exists(MAIN_CONFIG_MAP) => ~store'[MAIN_CONFIG_MAP].exists
                /\ (u[w].pc = "read" /\ faults' = faults /\ ~Exists(name)) =>
                      /\ store' = store
                      /\ u'[w].attempt = u[w].attempt + 1
                      /\ IF name = MAIN_CONFIG_MAP
                         THEN /\ u'[w].cm = "main"
                              /\ u'[w].pc \in {"read", "failed"}
                              /\ u'[w].pc = "failed" => u'[w].attempt = retries
                         ELSE u'[w].pc = "create"
                /\ (u[w].pc = "create" /\ faults' = faults /\ ~Exists(name)) =>
                      /\ store'[name].exists
                      /\ store'[name].data = EmptyDict
                      /\ store'[name].labels
                      /\ OthersKept(name)
                      /\ u'[w].cm = u[w].cm
                      /\ u'[w].pc \in {"read", "failed"}
                      /\ u'[w].pc = "failed" => u'[w].attempt = retries
                /\ (u[w].pc = "create" /\ (faults' # faults \/ Exists(name))) =>
                      /\ u'[w].pc = "failed"
                      /\ store' = store
                /\ u[w].pc # "failed"]_vars

\* the writer patches the product ConfigMap it has created and read back empty
C20_Witness ==
    /\ u[1].pc = "patch" /\ u[1].cm = "prod"
    /\ u[1].attempt = 2
    /\ u[1].seen.data = EmptyDict /\ u[1].seen.labels

\* the writer has met the main ConfigMap absent and goes on reading
C20_WitnessMain ==
    /\ u[1].pc = "read" /\ u[1].cm = "main" /\ u[1].attempt > 0
    /\ ~Exists(MAIN_CONFIG_MAP)

\* ------------------------------------------------------------------------
\* One call of catalog_update under weak fairness: the process is not
\* stopped from outside
\* ------------------------------------------------------------------------
\* the catalog has not been created yet
NoCatalogStore == [n \in ObjNames |-> Absent]

InitUpd ==
    /\ store \in {NoCatalogStore, EmptyStore, PartitionedStore}
    /\ rvCounter = 2
    /\ faults = 0
    /\ \E doc \in Docs, overwrite, set_active \in BOOLEAN :
          u = [w \in Writers |->
                  IF w = 1 THEN UProc(Sat, "1.0", doc, overwrite, set_active, FALSE)
                  ELSE UOff]
    /\ d = DOff
    /\ m = MOff
    /\ g = [GInit EXCEPT !.snap = store]

SpecUpdFair == InitUpd /\ [][NextConv]_vars /\ \A w \in Writers : WF_vars(UNext(w))

UOver(w) == u[w].pc \in {"off", "done", "failed"}

\* C21: bounded attempts of catalog_update.  On each ConfigMap the loop makes
\* at most `retries` (100) iterations, no read is started once the count has
\* reached 100, a loop that ends with the count at 100 ends as a failure,
\* and every call comes to an end.
C21_UpdateTerminates ==
    /\ [](\A w \in Writers : u[w].pc # "off" =>
             /\ u[w].attempt <= retries
             /\ u[w].pc = "read" => u[w].attempt < retries
             /\ u[w].attempt = retries => u[w].pc \in {"patch", "create", "failed"}
             /\ u[w].why = "exhausted" <=> (u[w].pc = "failed" /\ u[w].attempt = retries
                                             /\ u[w].why \notin {"read_error", "create_error",
                                                                  "create_failed", "crash", "exit"}))
    /\ \A w \in Writers : (u[w].pc = "main") ~> UOver(w)

C21_Witness ==
    /\ u[1].pc = "failed" /\ u[1].why = "exhausted" /\ u[1].attempt = retries
    /\ u[1].cm = "main"

\* the loop of update_config_map on the object the writer is at ends with a
\* `break` on what is stored now
BreaksNow(w) ==
    /\ u[w].pc = "read"
    /\ Exists(UName(w))
    /\ Decide(store[UName(w)].data, UData(w), u[w].PRODUCT, u[w].PRODUCT_VERSION,
              u[w].UPDATE_OVERWRITE, u[w].SET_ACTIVE_VERSION,
              u[w].REMOVE_ACTIVE_FIELD).next = "break"

\* the object `name` has a document for the writer's version that holds `data`
Holds(w, name, data) ==
    LET stored == DocIn(store, name, u[w].PRODUCT, u[w].PRODUCT_VERSION)
    IN  /\ HasDocIn(store, name, u[w].PRODUCT, u[w].PRODUCT_VERSION)
        /\ merge_dict(data, stored) = stored

\* C22: success of catalog_update covers both ConfigMaps.  The call ends as
\* a success only by the `break` of the loop on the last ConfigMap it has to
\* write, which is the product ConfigMap when the document has product
\* fields; it goes from the main ConfigMap to the product ConfigMap only by
\* the `break` of the loop on the main ConfigMap; a call that has failed
\* stays failed.  In merge mode a call that has ended as a success finds
\* its main fields in the main ConfigMap and its product fields in the
\* product ConfigMap.
C22_SuccessCoversBoth ==
    /\ [][\A w \in Writers :
            u'[w] # u[w] =>
              /\ u[w].pc # "failed"
              /\ (u'[w].pc = "done" /\ u[w].pc # "done") =>
                    /\ BreaksNow(w)
                    /\ u'[w].attempt < retries
                    /\ split_prod(u[w].data) # EmptyDict => u[w].cm = "prod"
              /\ (u[w].cm = "main" /\ u'[w].cm = "prod") =>
                    /\ BreaksNow(w)
                    /\ split_prod(u[w].data) # EmptyDict]_vars
    /\ [](\A w \in Writers :
            (u[w].pc = "done" /\ ~u[w].UPDATE_OVERWRITE) =>
               /\ Holds(w, MAIN_CONFIG_MAP, split_main(u[w].data))
               /\ split_prod(u[w].data) # EmptyDict =>
                     Holds(w, ProductCM(u[w].PRODUCT), split_prod(u[w].data)))

\* the update of the product ConfigMap has failed after the main ConfigMap
\* was written
C22_Witness ==
    /\ u[1].pc = "failed" /\ u[1].cm = "prod"
    /\ store[MAIN_CONFIG_MAP] # g.snap[MAIN_CONFIG_MAP]
    /\ Holds(1, MAIN_CONFIG_MAP, split_main(u[1].data))
    /\ ~Holds(1, ProductCM(u[1].PRODUCT), split_prod(u[1].data))

\* `name` is the name of the main ConfigMap, a dash and a suffix that is not
\* empty
BaseDashSuffix(name) ==
    LET n == Len(MAIN_CONFIG_MAP)
    IN  /\ Len(name) > n + 1
        /\ SubSeq(name, 1, n + 1) = MAIN_CONFIG_MAP \o <<"-">>

\* C23: scope of the rollback.  Every delete call of rollback names a
\* ConfigMap whose name is the name of the main ConfigMap, a dash and a
\* non-empty suffix, hence never the main ConfigMap; a ConfigMap the call
\* removes carries the label; the call leaves every other ConfigMap, the
\* main ConfigMap among them, as it is.
C23_RollbackScope ==
    /\ [](m.pc = "rb_delete" =>
            \A i \in DOMAIN m.rb_todo :
                /\ BaseDashSuffix(m.rb_todo[i])
                /\ m.rb_todo[i] # MAIN_CONFIG_MAP)
    /\ [][(m.pc = "rb_delete" /\ m' # m) =>
            LET config_map == Head(m.rb_todo)
            IN  /\ store'[MAIN_CONFIG_MAP] = store[MAIN_CONFIG_MAP]
                /\ \A n \in ObjNames \ {config_map} : store'[n] = store[n]
                /\ store' # store => (store[config_map].labels /\ ~store'[config_map].exists)]_vars

\* the rollback has deleted ConfigMaps and the combined main ConfigMap is
\* still what it was
C23_Witness ==
    /\ m.pc = "failed" /\ m.rb_listed /\ m.mutated
    /\ g.created # {}
    /\ \A n \in g.created : ~Exists(n)
    /\ store[MAIN_CONFIG_MAP] = g.orig
    /\ ~store[MAIN_CONFIG_MAP].labels

\* C24: partial failure of the rollback.  Every delete call of rollback takes
\* the next candidate off the list whether it succeeded or not, and puts the
\* candidate on the list of leftovers exactly when the ConfigMap is still
\* there afterwards; rollback returns to main only when the list is
\* exhausted, and then the leftovers it reports are exactly the candidates
\* that still exist.
C24_RollbackPartialFailure ==
    [][(m.pc = "rb_delete" /\ m' # m) =>
         LET config_map == Head(m.rb_todo)
         IN  /\ m'.rb_todo = Tail(m.rb_todo)
             /\ m'.rb_left = IF store'[config_map].exists
                             THEN Append(m.rb_left, config_map) ELSE m.rb_left
             /\ m'.pc \in {"rb_delete", m.rb_next}
             /\ m'.pc # "rb_delete" =>
                   /\ m'.rb_todo = <<>>
                   /\ Range(m'.rb_left) =
                        {n \in ObjNames : /\ store'[n].exists /\ store'[n].labels
                                          /\ IsProductConfigMap(n)}]_vars

\* the delete of the first candidate failed, the later candidates were
\* deleted, and rollback has returned
C24_Witness ==
    /\ m.pc = "failed" /\ m.rb_listed
    /\ m.rb_left = <<ProductCM(Hfp)>>
    /\ Exists(ProductCM(Hfp))
    /\ {ProductCM(Sat), CONFIG_MAP_TEMP} \subseteq g.created
    /\ ~Exists(ProductCM(Sat)) /\ ~Exists(CONFIG_MAP_TEMP)

\* ------------------------------------------------------------------------
\* The helpers of catalog_data_helper applied to inputs of bounded size
\* ------------------------------------------------------------------------
FieldKeys == CONFIG_MAP_FIELDS \cup PRODUCT_CM_FIELDS \cup {"active"}
FieldValues == {Leaf("x"), Map([name |-> Leaf("y")])}
HelperDocs == UNION {[keys -> FieldValues] : keys \in SUBSET FieldKeys}

\* characters of product names: lower case, upper case, digit, the three
\* separators and a character outside the allowed set
Alphabet == {"a", "Z", "0", "_", "-", ".", "$"}
MaxProductLen == 3
ShortNames == UNION {[1..n -> Alphabet] : n \in 0..MaxProductLen}
\* product names around the length limit of the derived name
LongName(n) == [i \in 1..n |-> "a"]
LongNames == {LongName(n) : n \in (MaxNameLen - Len(MAIN_CONFIG_MAP) - 2)..
                                  (MaxNameLen - Len(MAIN_CONFIG_MAP) + 1)}
HelperNames == ShortNames \cup LongNames

HCall(fn, data, product) ==
    [pc |-> "call", fn |-> fn, data |-> data, product |-> product,
     main_cm_data |-> EmptyDict, prod_cm_data |-> EmptyDict, name |-> EmptyString]

InitHelpers ==
    /\ store = EmptyStore
    /\ rvCounter = 2
    /\ faults = 0
    /\ u = [w \in Writers |-> UOff]
    /\ d = DOff
    /\ m = MOff
    /\ \/ \E data \in HelperDocs : g = HCall("split", data, EmptyString)
       \/ \E product \in HelperNames : g = HCall("format", EmptyDict, product)

\* main_cm_data, prod_cm_data = split_catalog_data(data)
HSplit ==
    /\ g.pc = "call" /\ g.fn = "split"
    /\ g' = [g EXCEPT !.pc = "done", !.main_cm_data = split_main(g.data),
                      !.prod_cm_data = split_prod(g.data)]
    /\ UNCHANGED <<store, rvCounter, faults, u, d, m>>

\* product_config_map = format_product_cm_name(MAIN_CONFIG_MAP, PRODUCT)
HFormat ==
    /\ g.pc = "call" /\ g.fn = "format"
    /\ g' = [g EXCEPT !.pc = "done", !.name = format_product_cm_name(MAIN_CONFIG_MAP, g.product)]
    /\ UNCHANGED <<store, rvCounter, faults, u, d, m>>

NextHelpers == HSplit \/ HFormat

SpecHelpers == InitHelpers /\ [][NextHelpers]_vars

\* C25: split is a partition.  The two dictionaries returned by
\* split_catalog_data have disjoint key sets whose union is the key set of
\* the document, the second holds exactly the keys of PRODUCT_CM_FIELDS, every
\* key keeps the value it has in the document, and the second is empty when
\* the document has no key of PRODUCT_CM_FIELDS.
C25_SplitPartition ==
    (g.pc = "done" /\ g.fn = "split") =>
        /\ DOMAIN g.main_cm_data \cap DOMAIN g.prod_cm_data = {}
        /\ DOMAIN g.main_cm_data \cup DOMAIN g.prod_cm_data = DOMAIN g.data
        /\ DOMAIN g.prod_cm_data = DOMAIN g.data \cap PRODUCT_CM_FIELDS
        /\ \A k \in DOMAIN g.main_cm_data : g.main_cm_data[k] = g.data[k]
        /\ \A k \in DOMAIN g.prod_cm_data : g.prod_cm_data[k] = g.data[k]
        /\ DOMAIN g.data \cap PRODUCT_CM_FIELDS = {} => g.prod_cm_data = EmptyDict

C25_Witness ==
    /\ g.pc = "done" /\ g.fn = "split"
    /\ DOMAIN g.data = {"configuration", "component_versions", "active"}
    /\ DOMAIN g.main_cm_data = {"configuration", "active"}
    /\ DOMAIN g.prod_cm_data = {"component_versions"}

\* '^[a-z0-9]([a-z0-9.-]*[a-z0-9])?$'
MatchesStatedPattern(s) ==
    /\ Len(s) >= 1
    /\ s[1] \in AlNumLower
    /\ s[Len(s)] \in AlNumLower
    /\ \A i \in DOMAIN s : s[i] \in NameChars

\* C26: name derivation.  format_product_cm_name returns the base name, a
\* dash and the normalized product name exactly when that string has at
\* most 253 characters and the normalized product name matches
\* '^[a-z0-9]([a-z0-9.-]*[a-z0-9])?$', and the empty string otherwise.
C26_NameDerivation ==
    (g.pc = "done" /\ g.fn = "format") =>
        LET derived == MAIN_CONFIG_MAP \o <<"-">> \o normalize(g.product)
        IN  g.name = IF Len(derived) <= MaxNameLen /\ MatchesStatedPattern(normalize(g.product))
                     THEN derived ELSE EmptyString

\* ------------------------------------------------------------------------
\* One delete against a backend that rejects writes
\* ------------------------------------------------------------------------
InitDelOutage ==
    /\ store \in {PartitionedStore, MainOnlyStore, TwoFieldStore}
    /\ rvCounter = 2
    /\ faults = 0
    /\ u = [w \in Writers |-> UOff]
    /\ \E version \in Versions, key \in DeleteKeys : d = DProc(Sat, version, key)
    /\ m = MOff
    /\ g = [GInit EXCEPT !.snap = store, !.outage = TRUE]

SpecDelOutage == InitDelOutage /\ [][DNext]_vars

\* C27: bounded attempts of catalog_delete.  The loop of modify_config_map
\* is never in an iteration beyond max_attempts (100 for the main ConfigMap,
\* 10 for the product ConfigMap): it does not read again once the count has
\* reached max_attempts and it does not patch with a count above it.
C27_DeleteBounded ==
    /\ d.pc = "read" => d.attempt < DMaxAttempts
    /\ d.pc = "patch" => d.attempt <= DMaxAttempts

\* ------------------------------------------------------------------------
\* One call of catalog_update against a backend that rejects writes
\* ------------------------------------------------------------------------
InitUpdOutage ==
    /\ store \in {EmptyStore, PartitionedStore}
    /\ rvCounter = 2
    /\ faults = 0
    /\ \E doc \in Docs :
          u = [w \in Writers |-> IF w = 1 THEN UProc(Sat, "1.0", doc, FALSE, FALSE, FALSE)
                                 ELSE UOff]
    /\ d = DOff
    /\ m = MOff
    /\ g = [GInit EXCEPT !.snap = store, !.outage = TRUE]

SpecUpdOutage == InitUpdOutage /\ [][NextConv]_vars

\* C28: attempt budget of catalog_update by role.  The loop on the main
\* ConfigMap makes at most MAX_RETRIES (100) iterations and the loop on a
\* product ConfigMap at most MAX_RETRIES_FOR_PROD_CM (10), the budgets
\* catalog_delete passes to modify_config_map.
C28_BudgetsByRole ==
    \A w \in Writers :
        u[w].pc # "off" =>
            /\ u[w].cm = "main" => u[w].attempt <= MAX_RETRIES
            /\ u[w].cm = "prod" => u[w].attempt <= MAX_RETRIES_FOR_PROD_CM

\* C29: NotFound on the product ConfigMap in catalog_delete.  A delete
\* without a key for a product whose product ConfigMap does not exist, with
\* the main ConfigMap in place and every call answered, does not end as a
\* failure: it ends as a success with the version gone from the main
\* ConfigMap.
C29_ProductNotFoundRecovered ==
    (/\ d.pc \in {"done", "failed"}
     /\ d.KEY = NoKey
     /\ faults = 0
     /\ g.snap[MAIN_CONFIG_MAP].exists
     /\ ~g.snap[ProductCM(d.PRODUCT)].exists) =>
        /\ d.pc = "done"
        /\ ~HasDocIn(store, MAIN_CONFIG_MAP, d.PRODUCT, d.PRODUCT_VERSION)

\* C30: the rollback deletes its own ConfigMaps only.  Every ConfigMap that
\* a delete call of rollback removes was created by this run of the
\* migration (create_product_config_maps or create_temp_config_map).
C30_RollbackOwnOnly ==
    [][(m.pc = "rb_delete" /\ store' # store) => Head(m.rb_todo) \in g.created]_vars

\* C31: a rollback that reports success has cleaned up.  When rollback
\* returns without a name left for manual cleanup, no ConfigMap that the
\* migration created exists any more, whether the list call was answered or
\* not.
C31_RollbackSuccessIsClean ==
    [][(/\ m.pc \in {"rb_list", "rb_delete"}
        /\ m'.pc \notin {"rb_list", "rb_delete"}
        /\ m'.rb_left = <<>>) =>
          \A n \in g.created : ~store'[n].exists]_vars

\* the ConfigMap `n` comes into being / goes away in this step
Appears(n) == ~store[n].exists /\ store'[n].exists
Vanishes(n) == store[n].exists /\ ~store'[n].exists

\* the read and the split of this attempt are those of the main ConfigMap
\* as it is stored
ReadAndSplitDone ==
    /\ m.attempt >= 1
    /\ Exists(MAIN_CONFIG_MAP)
    /\ m.init_rv = store[MAIN_CONFIG_MAP].rv
    /\ m.main_data = migrate_main(store[MAIN_CONFIG_MAP].data)
    /\ m.prod_list = migrate_list(store[MAIN_CONFIG_MAP].data)

\* C32: order of the steps of migration.main.  A ConfigMap is created only
\* after the read and the split of the attempt; the staging ConfigMap only
\* when every product ConfigMap of the list exists; the combined main
\* ConfigMap is deleted only when the staging ConfigMap exists and the main
\* ConfigMap still has the resource version of the first read; the
\* destination is created only after that delete; rename deletes the
\* staging ConfigMap only when the destination exists.
C32_StepOrder ==
    [][m' # m =>
        /\ (\E n \in ObjNames \ {MAIN_CONFIG_MAP} : Appears(n)) =>
              (m.pc \in {"create_prod", "create_temp"} /\ ReadAndSplitDone)
        /\ Appears(CONFIG_MAP_TEMP) =>
              \A i \in DOMAIN m.prod_list : Exists(ProductCM(m.prod_list[i].product))
        /\ Vanishes(MAIN_CONFIG_MAP) =>
              /\ m.pc = "rename_delete"
              /\ Exists(CONFIG_MAP_TEMP)
              /\ store[MAIN_CONFIG_MAP].rv = m.init_rv
        /\ Appears(MAIN_CONFIG_MAP) => (m.pc = "rename_create" /\ m.renaming)
        /\ (Vanishes(CONFIG_MAP_TEMP) /\ m.pc \notin {"rb_delete"}) =>
              /\ m.pc = "rename_delete_temp"
              /\ Exists(MAIN_CONFIG_MAP) /\ store[MAIN_CONFIG_MAP].labels
              /\ m.dest_created]_vars

C32_Witness ==
    /\ m.pc = "done" /\ m.why = "migrated" /\ m.run = 1
    /\ g.created = {ProductCM(Hfp), ProductCM(Sat), CONFIG_MAP_TEMP, MAIN_CONFIG_MAP}
    /\ Exists(MAIN_CONFIG_MAP) /\ store[MAIN_CONFIG_MAP].labels
    /\ Exists(ProductCM(Hfp)) /\ Exists(ProductCM(Sat))
    /\ ~Exists(CONFIG_MAP_TEMP)

\* the field `k` of (p, v) of the combined catalog is stored, with its value,
\* in a ConfigMap that exists
FieldKept(p, v, k) ==
    \E n \in ObjNames :
        /\ HasDocIn(store, n, p, v)
        /\ k \in DOMAIN DocIn(store, n, p, v)
        /\ DocIn(store, n, p, v)[k] = OrigDoc(p, v)[k]

\* C33: no data loss.  In every state of a run of the migration on a
\* combined catalog, every field of every version of every product of the
\* catalog as it was before the run is stored with its value in some
\* existing ConfigMap (the main ConfigMap, the staging ConfigMap or a
\* product ConfigMap).
C33_NoDataLoss ==
    ~g.orig.labels =>
        \A p \in OrigProducts : \A v \in OrigVersions(p) :
            \A k \in DOMAIN OrigDoc(p, v) : FieldKept(p, v, k)

\* C34: the values the migration stores are well formed.  Every value under
\* a product key of a ConfigMap the migration created loads as a mapping,
\* and after a successful migration the step of catalog_update and of
\* catalog_delete that follows the read of the main ConfigMap runs without
\* error for every product key of the main ConfigMap.
C34_WellFormedValues ==
    /\ \A n \in g.created :
          Exists(n) => \A p \in DOMAIN store[n].data : ~LoadsNone(store[n].data[p])
    /\ (m.pc = "done" /\ m.why = "migrated") =>
          \A p \in DOMAIN store[MAIN_CONFIG_MAP].data :
              /\ Decide(store[MAIN_CONFIG_MAP].data, StoredMainDoc, p, "1.0",
                        FALSE, FALSE, FALSE).next # "crash"
              /\ DDecide(store[MAIN_CONFIG_MAP].data, p, "1.0", NoKey).next # "crash"

\* C35: no lost write across the migration.  When the migration has ended
\* as a success and a call of catalog_update that ran beside it has ended as
\* a success, the main ConfigMap holds the main fields of the call's
\* document for its version.
C35_NoLostWrite ==
    \A w \in Writers :
        (m.pc = "done" /\ m.why = "migrated" /\ u[w].pc = "done") =>
            Holds(w, MAIN_CONFIG_MAP, split_main(u[w].data))

\* C36: progress of a single writer.  With no other writer and every backend
\* call answered, a call of catalog_update in a permitted mode with a valid
\* product name does not fail, and it patches each ConfigMap at most once:
\* in the first iteration of the loop on a ConfigMap that existed when the
\* call began, in the second on one the call had to create.
C36_SingleWriterProgress ==
    \A w \in Writers :
        (u[w].pc # "off" /\ faults = 0 /\ ~BothActiveModes(w) /\ ~InvalidProductName(w)) =>
            /\ u[w].pc # "failed"
            /\ u[w].pc = "patch" =>
                  u[w].attempt <= IF g.snap[UName(w)].exists THEN 1 ELSE 2

\* C37: concurrent lazy creation.  When every writer carries product fields
\* for the same product and the backend answers every call, no call fails
\* because another call created the product ConfigMap first, and once all
\* calls are done the product ConfigMap holds the product fields of each
\* writer's version.
C37_ConcurrentLazyCreation ==
    (faults = 0 /\ \A w \in Writers : split_prod(u[w].data) # EmptyDict) =>
        /\ \A w \in Writers : u[w].pc # "failed"
        /\ (\A w \in Writers : u[w].pc = "done") =>
              \A w \in Writers : Holds(w, ProductCM(u[w].PRODUCT), split_prod(u[w].data))

\* ------------------------------------------------------------------------
\* Calls for different products on the same main ConfigMap
\* ------------------------------------------------------------------------
\* the main ConfigMap holds version 1.0 of Hfp and of Sat
TwoProductStore ==
    [n \in ObjNames |->
        IF n = MAIN_CONFIG_MAP
        THEN Object([p \in {Hfp, Sat} |-> safe_dump([v \in {"1.0"} |-> StoredMainDoc])], 1, TRUE)
        ELSE Absent]

\* an update of Sat 2.0 next to a delete in Hfp 1.0 or to an update of Hfp 2.0
InitFrame ==
    /\ store = TwoProductStore
    /\ rvCounter = 1
    /\ faults = 0
    /\ \E doc \in Docs : \E second \in BOOLEAN :
          /\ u = [w \in Writers |->
                    IF w = 1 THEN UProc(Sat, "2.0", doc, FALSE, FALSE, FALSE)
                    ELSE IF w = 2 /\ second
                    THEN UProc(Hfp, "2.0", DocMainOnly, FALSE, FALSE, FALSE)
                    ELSE UOff]
          /\ IF second THEN d = DOff
             ELSE \E key \in {NoKey, "configuration"} : d = DProc(Hfp, "1.0", key)
    /\ m = MOff
    /\ g = GInit

SpecFrame == InitFrame /\ [][NextDel]_vars

\* the entry of product q in ConfigMap n of store s, if there is one
Entry(s, n, q) == IF s[n].exists /\ q \in DOMAIN s[n].data THEN <<s[n].data[q]>> ELSE <<>>

\* the step is taken by a call for product q
StepFor(q) ==
    \/ d' # d /\ d.PRODUCT = q
    \/ \E w \in Writers : u'[w] # u[w] /\ u[w].PRODUCT = q

\* C38: frame across products.  A step that changes the entry of product q
\* in any ConfigMap is a step of a call for product q.
C38_FrameAcrossProducts ==
    [][\A n \in ObjNames : \A q \in {Hfp, Sat} :
          Entry(store', n, q) # Entry(store, n, q) => StepFor(q)]_vars

\* ------------------------------------------------------------------------
\* Concurrent updates of one product with and without setActive
\* ------------------------------------------------------------------------
\* two calls for versions 1.0 and 2.0 of Sat, each in setActive mode or in
\* no active mode, on a main ConfigMap without any active field
InitActive ==
    /\ store \in {EmptyStore, MainOnlyStore}
    /\ rvCounter = 1
    /\ faults = 0
    /\ \E doc \in Docs : \E overwrite, sa1, sa2 \in BOOLEAN :
          u = [w \in Writers |->
                 IF w = 1 THEN UProc(Sat, "1.0", DocMainOnly, overwrite, sa1, FALSE)
                 ELSE IF w = 2 THEN UProc(Sat, "2.0", doc, FALSE, sa2, FALSE)
                 ELSE UOff]
    /\ d = DOff
    /\ m = MOff
    /\ g = GInit

\* the behaviours are followed up to MaxWrites writes to the backend
MaxWrites == 6

NextActive == rvCounter <= MaxWrites /\ NextConv

SpecActive == InitActive /\ [][NextActive]_vars

\* the versions of product p with a true active field in ConfigMap n
ActiveVersions(n, p) ==
    IF Exists(n) /\ p \in DOMAIN store[n].data /\ ~LoadsNone(store[n].data[p])
    THEN {v \in DOMAIN safe_load(store[n].data[p]) :
             Truthy(safe_load(store[n].data[p])[v], "active")}
    ELSE {}

\* C39: at most one active version.  Whatever the interleaving of calls in
\* setActive mode and in no active mode on one product, at most one version
\* of the product has a true active field in the main ConfigMap.
C39_AtMostOneActive ==
    \A p \in Products : Cardinality(ActiveVersions(MAIN_CONFIG_MAP, p)) <= 1

\* both calls ran in setActive mode and are done, a patch was rejected on
\* the way, and the active field moved: 2.0 is active, 1.0 carries active
\* False
C39_Witness ==
    /\ \A w \in {1, 2} : u[w].SET_ACTIVE_VERSION /\ u[w].pc = "done"
    /\ g.rejected
    /\ ActiveVersions(MAIN_CONFIG_MAP, Sat) = {"2.0"}
    /\ safe_load(store[MAIN_CONFIG_MAP].data[Sat])["1.0"]["active"] = Leaf("False")

\* C40: no false failure at the budget boundary.  An iteration of the loop
\* whose read shows that the data of the call and its active-field
\* postcondition are stored does not end the call as attempts-exhausted.
C40_NoFalseFailure ==
    [][\A w \in Writers :
          (u[w].pc = "read" /\ BreaksNow(w) /\ u'[w] # u[w]) =>
              u'[w].why # "exhausted"]_vars

====
